---- MODULE Spec2Model ----
(***************************************************************************)
(* Model of the vibe-lottery authentication service                        *)
(* (src/src/services/AuthService.ts): the token codec (generateToken,      *)
(* decodeToken over btoa/atob and JSON.stringify/JSON.parse), and the      *)
(* service operations authenticate, validateToken, performSecuredAction    *)
(* and getPublicGreeting, run against a wall clock that advances.          *)
(*                                                                         *)
(* Strings are sequences of one-character strings.  JavaScript values are  *)
(* records [t |-> type, n |-> number, s |-> string, m |-> members]: n is   *)
(* the value of a number (1 or 0 for true or false), s of a string, and m  *)
(* the sequence of an object's members [k |-> key, v |-> value] in         *)
(* insertion order; the fields a type does not use are 0 and <<>>.         *)
(***************************************************************************)
EXTENDS Integers, Sequences, FiniteSets, TLC

(***************************************************************************)
(* Characters: the printable ASCII range, code 32 (space) to 126 (~).  The  *)
(* grave accent (code 96) cannot be written in a string of this language   *)
(* and is written as the escape "\\x96".                                    *)
(***************************************************************************)
Printable ==
  <<
     " ", "!", "\"", "#", "$", "%", "&", "'", "(", ")", "*", "+", ",", "-", ".", "/",
     "0", "1", "2", "3", "4", "5", "6", "7", "8", "9", ":", ";", "<", "=", ">", "?",
     "@", "A", "B", "C", "D", "E", "F", "G", "H", "I", "J", "K", "L", "M", "N", "O",
     "P", "Q", "R", "S", "T", "U", "V", "W", "X", "Y", "Z", "[", "\\", "]", "^", "_",
     "\\x96", "a", "b", "c", "d", "e", "f", "g", "h", "i", "j", "k", "l", "m", "n", "o",
     "p", "q", "r", "s", "t", "u", "v", "w", "x", "y", "z", "{", "|", "}", "~"
  >>

\* The base64 alphabet of btoa/atob, value 0 first.
Base64Alphabet ==
  <<
     "A", "B", "C", "D", "E", "F", "G", "H", "I", "J", "K", "L", "M", "N", "O", "P",
     "Q", "R", "S", "T", "U", "V", "W", "X", "Y", "Z", "a", "b", "c", "d", "e", "f",
     "g", "h", "i", "j", "k", "l", "m", "n", "o", "p", "q", "r", "s", "t", "u", "v",
     "w", "x", "y", "z", "0", "1", "2", "3", "4", "5", "6", "7", "8", "9", "+", "/"
  >>

PrintableChars == {Printable[i] : i \in 1..Len(Printable)}

CharCodes ==
  [c \in PrintableChars |-> 31 + (CHOOSE i \in 1..Len(Printable) : Printable[i] = c)]

\* The character code of a printable character.
CharCode(c) == CharCodes[c]

\* String.fromCharCode for one byte; a byte outside the printable range is
\* written as the escape "\xNNN" (one unit of the string).
FromCharCode(b) ==
  IF b \in 32..126 THEN Printable[b - 31] ELSE "\\x" \o ToString(b)

Base64Chars == {Base64Alphabet[i] : i \in 1..64}

Base64Values ==
  [c \in Base64Chars |-> (CHOOSE i \in 1..64 : Base64Alphabet[i] = c) - 1]

IsBase64Char(c) == c \in Base64Chars

Base64Value(c) == Base64Values[c]

IsDigit(c) == c \in {"0", "1", "2", "3", "4", "5", "6", "7", "8", "9"}

DigitValue(c) == CharCode(c) - 48

\* ASCII whitespace that atob strips; String.prototype.trim strips these too.
IsWhitespace(c) == c \in {" ", "\\x9", "\\x10", "\\x12", "\\x13"}

(***************************************************************************)
(* btoa and atob (WHATWG forgiving-base64).                                *)
(***************************************************************************)
Base64Char(v) == Base64Alphabet[v + 1]

RECURSIVE EncodeBytes(_)
EncodeBytes(b) ==
  IF Len(b) = 0 THEN <<>>
  ELSE IF Len(b) = 1 THEN
    << Base64Char(b[1] \div 4), Base64Char((b[1] % 4) * 16), "=", "=" >>
  ELSE IF Len(b) = 2 THEN
    << Base64Char(b[1] \div 4),
       Base64Char((b[1] % 4) * 16 + b[2] \div 16),
       Base64Char((b[2] % 16) * 4), "=" >>
  ELSE
    << Base64Char(b[1] \div 4),
       Base64Char((b[1] % 4) * 16 + b[2] \div 16),
       Base64Char((b[2] % 16) * 4 + b[3] \div 64),
       Base64Char(b[3] % 64) >> \o EncodeBytes(SubSeq(b, 4, Len(b)))

\* btoa(s) for a string of printable ASCII characters.
btoa(s) == EncodeBytes([i \in 1..Len(s) |-> CharCode(s[i])])

RECURSIVE DecodeValues(_)
DecodeValues(v) ==
  IF Len(v) = 0 THEN <<>>
  ELSE IF Len(v) = 2 THEN << v[1] * 4 + v[2] \div 16 >>
  ELSE IF Len(v) = 3 THEN
    << v[1] * 4 + v[2] \div 16, (v[2] % 16) * 16 + v[3] \div 4 >>
  ELSE
    << v[1] * 4 + v[2] \div 16,
       (v[2] % 16) * 16 + v[3] \div 4,
       (v[3] % 4) * 64 + v[4] >> \o DecodeValues(SubSeq(v, 5, Len(v)))

IsNotWhitespace(c) == ~IsWhitespace(c)

\* Step 1 of forgiving-base64 decode.
RemoveWhitespace(s) == SelectSeq(s, IsNotWhitespace)

\* Step 2 of forgiving-base64 decode: when the length is a multiple of 4,
\* one or two trailing "=" are removed.
StripPadding(s) ==
  IF Len(s) % 4 = 0 /\ Len(s) > 0 /\ s[Len(s)] = "="
  THEN IF s[Len(s) - 1] = "=" THEN SubSeq(s, 1, Len(s) - 2)
       ELSE SubSeq(s, 1, Len(s) - 1)
  ELSE s

\* The string of the bytes.
BytesToString(bytes) == [i \in 1..Len(bytes) |-> FromCharCode(bytes[i])]

\* Steps 3 to 5 of forgiving-base64 decode, on the data without whitespace
\* and padding.
DecodeData(data) ==
  IF Len(data) % 4 = 1 \/ \E i \in 1..Len(data) : ~IsBase64Char(data[i])
  THEN [ok |-> FALSE, v |-> <<>>]
  ELSE [ok |-> TRUE,
        v |-> BytesToString(
                DecodeValues([i \in 1..Len(data) |-> Base64Value(data[i])]))]

\* atob(s): [ok |-> TRUE, v |-> the decoded string], or [ok |-> FALSE] where
\* atob throws InvalidCharacterError.
atob(s) == DecodeData(StripPadding(RemoveWhitespace(s)))

(***************************************************************************)
(* JavaScript values.                                                      *)
(***************************************************************************)
JValue(type, number, string, members) ==
  [t |-> type, n |-> number, s |-> string, m |-> members]

Undefined == JValue("undefined", 0, <<>>, <<>>)

JNull == JValue("null", 0, <<>>, <<>>)

JNum(n) == JValue("num", n, <<>>, <<>>)

JStr(s) == JValue("str", 0, s, <<>>)

JBool(b) == JValue("bool", IF b THEN 1 ELSE 0, <<>>, <<>>)

JObj(members) == JValue("obj", 0, <<>>, members)

Member(key, value) == [k |-> key, v |-> value]

\* Property read obj.key on an object: the last member of that name (a
\* later duplicate key overwrites an earlier one), undefined when none;
\* hits are the positions of the members of that name.
PropAt(obj, hits) ==
  IF hits = {} THEN Undefined
  ELSE obj.m[CHOOSE i \in hits : \A j \in hits : j <= i].v

GetProp(obj, key) == PropAt(obj, {i \in 1..Len(obj.m) : obj.m[i].k = key})

\* ToBoolean.
Truthy(x) ==
  CASE x.t = "undefined" -> FALSE
    [] x.t = "null" -> FALSE
    [] x.t = "num" -> x.n # 0
    [] x.t = "str" -> x.s # <<>>
    [] x.t = "bool" -> x.n = 1
    [] OTHER -> TRUE

(***************************************************************************)
(* JSON.stringify, for integers, strings without quote or backslash,       *)
(* null, booleans and objects of these.                                    *)
(***************************************************************************)
RECURSIVE NatToString(_)
NatToString(n) ==
  IF n < 10 THEN <<Printable[n + 17]>>
  ELSE NatToString(n \div 10) \o <<Printable[(n % 10) + 17]>>

NumberToString(n) == IF n < 0 THEN <<"-">> \o NatToString(-n) ELSE NatToString(n)

Quote(s) == <<"\"">> \o s \o <<"\"">>

StringifyScalar(x) ==
  CASE x.t = "num" -> NumberToString(x.n)
    [] x.t = "str" -> Quote(x.s)
    [] x.t = "bool" -> IF x.n = 1 THEN <<"t", "r", "u", "e">>
                       ELSE <<"f", "a", "l", "s", "e">>
    [] OTHER -> <<"n", "u", "l", "l">>

RECURSIVE StringifyMembers(_)
StringifyMembers(ms) ==
  IF ms = <<>> THEN <<>>
  ELSE Quote(ms[1].k) \o <<":">> \o StringifyScalar(ms[1].v)
       \o (IF Len(ms) > 1 THEN <<",">> ELSE <<>>)
       \o StringifyMembers(Tail(ms))

JSONstringify(x) ==
  IF x.t = "obj" THEN <<"{">> \o StringifyMembers(x.m) \o <<"}">>
  ELSE StringifyScalar(x)

(***************************************************************************)
(* JSON.parse for the texts JSONstringify can write: an integer, a string  *)
(* without escapes, null, true, false, or an object whose values are of    *)
(* these, with no whitespace between the tokens.  Every other text is a    *)
(* SyntaxError ([ok |-> FALSE]); the token strings the model feeds to      *)
(* decodeToken decode either to texts of this grammar or to texts that     *)
(* JSON.parse rejects as well.                                             *)
(* A parser result is [ok, v, next]: next is the position after the value. *)
(***************************************************************************)
ParseFail == [ok |-> FALSE, v |-> Undefined, next |-> 0]

ControlChars == {"\\x" \o ToString(n) : n \in 0..31}

RECURSIVE ParseDigits(_, _, _)
ParseDigits(s, i, acc) ==
  IF i <= Len(s) /\ IsDigit(s[i])
  THEN ParseDigits(s, i + 1, acc * 10 + DigitValue(s[i]))
  ELSE [v |-> acc, next |-> i]

ParsedNumber(d) == [ok |-> TRUE, v |-> JNum(d.v), next |-> d.next]

\* int = "0" | digit1-9 *digit, no leading zero.
ParseNat(s, i) ==
  IF i > Len(s) \/ ~IsDigit(s[i]) THEN ParseFail
  ELSE IF s[i] = "0" THEN [ok |-> TRUE, v |-> JNum(0), next |-> i + 1]
  ELSE ParsedNumber(ParseDigits(s, i, 0))

Negated(r) ==
  IF r.ok THEN [ok |-> TRUE, v |-> JNum(-r.v.n), next |-> r.next]
  ELSE ParseFail

ParseNumber(s, i) ==
  IF i <= Len(s) /\ s[i] = "-" THEN Negated(ParseNat(s, i + 1))
  ELSE ParseNat(s, i)

\* The position of the closing quote of the string opened before position
\* i, or 0 when the string is unterminated or holds an escape or a control
\* character.
RECURSIVE StringEnd(_, _)
StringEnd(s, i) ==
  IF i > Len(s) THEN 0
  ELSE IF s[i] = "\"" THEN i
  ELSE IF s[i] = "\\" \/ s[i] \in ControlChars THEN 0
  ELSE StringEnd(s, i + 1)

\* The string between the opening quote at i and the closing quote at e.
ParsedString(s, i, e) ==
  IF e = 0 THEN ParseFail
  ELSE [ok |-> TRUE, v |-> JStr(SubSeq(s, i + 1, e - 1)), next |-> e + 1]

ParseString(s, i) ==
  IF i > Len(s) \/ s[i] # "\"" THEN ParseFail
  ELSE ParsedString(s, i, StringEnd(s, i + 1))

ParseLiteral(s, i, word, value) ==
  IF i + Len(word) - 1 <= Len(s) /\ SubSeq(s, i, i + Len(word) - 1) = word
  THEN [ok |-> TRUE, v |-> value, next |-> i + Len(word)]
  ELSE ParseFail

ParseScalar(s, i) ==
  IF i > Len(s) THEN ParseFail
  ELSE CASE s[i] = "\"" -> ParseString(s, i)
         [] s[i] = "n" -> ParseLiteral(s, i, <<"n", "u", "l", "l">>, JNull)
         [] s[i] = "t" ->
              ParseLiteral(s, i, <<"t", "r", "u", "e">>, JBool(TRUE))
         [] s[i] = "f" ->
              ParseLiteral(s, i, <<"f", "a", "l", "s", "e">>, JBool(FALSE))
         [] OTHER -> ParseNumber(s, i)

RECURSIVE ParseMembers(_, _, _)

\* After the members ms and a value that ends before position i.
AfterMember(s, i, ms) ==
  IF i > Len(s) THEN ParseFail
  ELSE IF s[i] = "}" THEN [ok |-> TRUE, v |-> JObj(ms), next |-> i + 1]
  ELSE IF s[i] = "," THEN ParseMembers(s, i + 1, ms)
  ELSE ParseFail

\* After the key of a member, with the parse of its value.
AfterValue(s, key, val, acc) ==
  IF ~val.ok THEN ParseFail
  ELSE AfterMember(s, val.next, Append(acc, Member(key.v.s, val.v)))

\* After the parse of a member's key.
AfterKey(s, key, acc) ==
  IF ~key.ok \/ key.next > Len(s) \/ s[key.next] # ":" THEN ParseFail
  ELSE AfterValue(s, key, ParseScalar(s, key.next + 1), acc)

\* The members of an object from position i (after "{" or ","), added to acc.
ParseMembers(s, i, acc) == AfterKey(s, ParseString(s, i), acc)

ParseValue(s, i) ==
  IF i <= Len(s) /\ s[i] = "{"
  THEN IF i + 1 <= Len(s) /\ s[i + 1] = "}"
       THEN [ok |-> TRUE, v |-> JObj(<<>>), next |-> i + 2]
       ELSE ParseMembers(s, i + 1, <<>>)
  ELSE ParseScalar(s, i)

\* The value r parsed from the start of s, when it is the whole of s.
WholeText(s, r) ==
  IF r.ok /\ r.next = Len(s) + 1 THEN [ok |-> TRUE, v |-> r.v]
  ELSE [ok |-> FALSE, v |-> Undefined]

\* JSON.parse(s): [ok |-> TRUE, v |-> value], or [ok |-> FALSE] where it
\* throws SyntaxError.
JSONparse(s) == WholeText(s, ParseValue(s, 1))

(***************************************************************************)
(* Strings of the service.                                                 *)
(***************************************************************************)
Str_admin == <<"a", "d", "m", "i", "n">>

Str_userId == <<"u", "s", "e", "r", "I", "d">>

Str_iat == <<"i", "a", "t">>

Str_exp == <<"e", "x", "p">>

Str_undefined == <<"u", "n", "d", "e", "f", "i", "n", "e", "d">>

\* String(x) for an argument that is a string or undefined.
ToJsString(x) == IF x.t = "str" THEN x.s ELSE Str_undefined

\* Whitespace that String.prototype.trim removes (within one-byte characters).
IsTrimWhitespace(c) == c \in {" ", "\\x9", "\\x10", "\\x11", "\\x12", "\\x13"}

RECURSIVE TrimStart(_)
TrimStart(s) ==
  IF s # <<>> /\ IsTrimWhitespace(Head(s)) THEN TrimStart(Tail(s)) ELSE s

RECURSIVE TrimEnd(_)
TrimEnd(s) ==
  IF s # <<>> /\ IsTrimWhitespace(s[Len(s)])
  THEN TrimEnd(SubSeq(s, 1, Len(s) - 1)) ELSE s

trim(s) == TrimEnd(TrimStart(s))

\* Math.floor(ms / 1000).
Seconds(ms) == ms \div 1000

\* 60 * 60: the token lifetime in seconds.
TokenLifetime == 60 * 60

(***************************************************************************)
(* Outcomes of an effect: success with a value, failure with a tagged      *)
(* error, or death by a defect (an exception thrown inside Effect.gen).    *)
(* calls lists the functions of the service the effect entered, reads the  *)
(* readings of Date.now() it made, in order.                               *)
(***************************************************************************)
Succeed(value, calls, reads) ==
  [exit |-> "success", value |-> value, calls |-> calls, reads |-> reads]

Fail(tag, message, code, calls, reads) ==
  [exit |-> "failure", tag |-> tag, message |-> message, code |-> code,
   calls |-> calls, reads |-> reads]

Die(defect, calls, reads) ==
  [exit |-> "die", defect |-> defect, calls |-> calls, reads |-> reads]

\* The constructor of a Schema.Class validates its properties and throws a
\* ParseError for a property that is not of the declared type.
IsSchemaString(x) == x.t = "str"

(***************************************************************************)
(* Token codec.                                                            *)
(***************************************************************************)
\* The payload generateToken builds; nowIat and nowExp are the two readings
\* of Date.now(), in milliseconds.
TokenPayload(userId, nowIat, nowExp) ==
  JObj(<< Member(Str_userId, JStr(userId)),
          Member(Str_iat, JNum(Seconds(nowIat))),
          Member(Str_exp, JNum(Seconds(nowExp) + TokenLifetime)) >>)

generateToken(userId, nowIat, nowExp) ==
  btoa(JSONstringify(TokenPayload(userId, nowIat, nowExp)))

\* The number a parse of the whole string s gives, else NaN.
NumberOrNaN(s, r) ==
  IF r.ok /\ r.next = Len(s) + 1 THEN [nan |-> FALSE, v |-> r.v.n]
  ELSE [nan |-> TRUE, v |-> 0]

\* ToNumber of a string: an optional "-" and digits give the integer, every
\* other string the model meets is NaN ([nan |-> TRUE]).
StringToNumber(s) == NumberOrNaN(s, ParseNumber(s, 1))

\* m < n, false for NaN.
NumberLess(m, n) == ~m.nan /\ m.v < n

\* x <= n in place of x < n.
JsLessThan_OrEqual(x, n) ==
  CASE x.t = "num" -> x.n <= n
    [] x.t = "bool" -> x.n <= n
    [] x.t = "str" -> NumberLess(StringToNumber(x.s), n + 1)
    [] x.t = "null" -> 0 <= n
    [] OTHER -> FALSE

\* x < n for a number n: a comparison with NaN is false.
JsLessThan(x, n) ==
  CASE x.t = "num" -> x.n < n
    [] x.t = "bool" -> x.n < n
    [] x.t = "str" -> NumberLess(StringToNumber(x.s), n)
    [] x.t = "null" -> 0 < n
    [] OTHER -> FALSE

\* decoded.name: a primitive has no such property (the read on null, which
\* throws TypeError, is decided by the caller).
ReadProp(decoded, name) ==
  IF decoded.t = "obj" THEN GetProp(decoded, name) ELSE Undefined

\* JSON.parse(raw) of the outcome raw of atob.
ParseDecoded(raw) ==
  IF raw.ok THEN JSONparse(raw.v) ELSE [ok |-> FALSE, v |-> Undefined]

\* JSON.parse(atob(token)): [ok |-> FALSE] where either throws.
ParseToken(token) == ParseDecoded(atob(ToJsString(token)))

\* The catch branch of decodeToken reporting the error of the format check.
DecodeError_AsInvalidFormat ==
  Fail("TokenError", "Invalid token format", "INVALID_FORMAT",
       <<"decodeToken">>, <<>>)

\* The catch branch of decodeToken.
DecodeError ==
  Fail("TokenError", "Failed to decode token", "DECODE_ERROR",
       <<"decodeToken">>, <<>>)

\* The tests of decodeToken comparing exp, in seconds, with Date.now() in
\* milliseconds.
CheckFields_MillisCompare(userId, exp, now) ==
  IF ~Truthy(userId) \/ ~Truthy(exp)
  THEN Fail("TokenError", "Invalid token format", "INVALID_FORMAT",
            <<"decodeToken">>, <<>>)
  ELSE IF JsLessThan(exp, now)
  THEN Fail("TokenError", "Token has expired", "TOKEN_EXPIRED",
            <<"decodeToken">>, <<now>>)
  ELSE Succeed([userId |-> userId, exp |-> exp], <<"decodeToken">>, <<now>>)

\* The format and expiry tests of decodeToken on decoded.userId and
\* decoded.exp, with Date.now() = now.
CheckFields(userId, exp, now) ==
  IF ~Truthy(userId) \/ ~Truthy(exp)
  THEN Fail("TokenError", "Invalid token format", "INVALID_FORMAT",
            <<"decodeToken">>, <<>>)
  ELSE IF JsLessThan(exp, Seconds(now))
  THEN Fail("TokenError", "Token has expired", "TOKEN_EXPIRED",
            <<"decodeToken">>, <<now>>)
  ELSE Succeed([userId |-> userId, exp |-> exp], <<"decodeToken">>, <<now>>)

\* The try block of decodeToken after JSON.parse(atob(token)) gave parsed.
CheckDecoded(parsed, now) ==
  IF ~parsed.ok THEN DecodeError
  ELSE IF parsed.v.t = "null" THEN DecodeError
  ELSE CheckFields(ReadProp(parsed.v, Str_userId),
                   ReadProp(parsed.v, Str_exp), now)

\* decodeToken(token) with Date.now() = now.
decodeToken(token, now) == CheckDecoded(ParseToken(token), now)

(***************************************************************************)
(* AuthService.                                                            *)
(***************************************************************************)
\* authenticate checking the password before the username.
authenticate_PasswordFirst(credentials, nowIat, nowExp, nowToken) ==
  IF credentials.password = <<>> \/ Len(trim(credentials.password)) = 0
  THEN Fail("AuthenticationError", "Password is required",
            "PASSWORD_REQUIRED", <<"authenticate">>, <<>>)
  ELSE IF credentials.username # Str_admin
  THEN Fail("AuthenticationError",
            "Invalid username. Only \"admin\" is allowed.",
            "INVALID_USERNAME", <<"authenticate">>, <<>>)
  ELSE Succeed([token |-> generateToken(credentials.username, nowIat, nowExp),
                expiresAt |-> nowToken + 60 * 60 * 1000,
                userId |-> credentials.username],
               <<"authenticate", "generateToken">>,
               <<nowIat, nowExp, nowToken>>)

\* authenticate requiring the password to equal its trimmed form.
authenticate_RejectsPadded(credentials, nowIat, nowExp, nowToken) ==
  IF credentials.username # Str_admin
  THEN Fail("AuthenticationError",
            "Invalid username. Only \"admin\" is allowed.",
            "INVALID_USERNAME", <<"authenticate">>, <<>>)
  ELSE IF credentials.password = <<>>
          \/ trim(credentials.password) # credentials.password
  THEN Fail("AuthenticationError", "Password is required",
            "PASSWORD_REQUIRED", <<"authenticate">>, <<>>)
  ELSE Succeed([token |-> generateToken(credentials.username, nowIat, nowExp),
                expiresAt |-> nowToken + 60 * 60 * 1000,
                userId |-> credentials.username],
               <<"authenticate", "generateToken">>,
               <<nowIat, nowExp, nowToken>>)

\* authenticate testing the password without trimming it.
authenticate_NoTrim(credentials, nowIat, nowExp, nowToken) ==
  IF credentials.username # Str_admin
  THEN Fail("AuthenticationError",
            "Invalid username. Only \"admin\" is allowed.",
            "INVALID_USERNAME", <<"authenticate">>, <<>>)
  ELSE IF credentials.password = <<>>
  THEN Fail("AuthenticationError", "Password is required",
            "PASSWORD_REQUIRED", <<"authenticate">>, <<>>)
  ELSE Succeed([token |-> generateToken(credentials.username, nowIat, nowExp),
                expiresAt |-> nowToken + 60 * 60 * 1000,
                userId |-> credentials.username],
               <<"authenticate", "generateToken">>,
               <<nowIat, nowExp, nowToken>>)

\* authenticate(credentials); nowIat and nowExp are the readings of
\* Date.now() in generateToken, nowToken the reading for expiresAt.
authenticate(credentials, nowIat, nowExp, nowToken) ==
  IF credentials.username # Str_admin
  THEN Fail("AuthenticationError",
            "Invalid username. Only \"admin\" is allowed.",
            "INVALID_USERNAME", <<"authenticate">>, <<>>)
  ELSE IF credentials.password = <<>> \/ Len(trim(credentials.password)) = 0
  THEN Fail("AuthenticationError", "Password is required",
            "PASSWORD_REQUIRED", <<"authenticate">>, <<>>)
  ELSE Succeed([token |-> generateToken(credentials.username, nowIat, nowExp),
                expiresAt |-> nowToken + 60 * 60 * 1000,
                userId |-> credentials.username],
               <<"authenticate", "generateToken">>,
               <<nowIat, nowExp, nowToken>>)

\* !token for an argument that is a string or undefined.
IsFalsyToken(token) == token.t = "undefined" \/ token.s = <<>>

\* new UserSession(...) from the outcome of decodeToken, failures passed on.
NewUserSession(decoded, nowSession) ==
  IF decoded.exit # "success"
  THEN [decoded EXCEPT !.calls = <<"validateToken">> \o decoded.calls]
  ELSE IF ~IsSchemaString(decoded.value.userId)
  THEN Die("ParseError", <<"validateToken">> \o decoded.calls,
           Append(decoded.reads, nowSession))
  ELSE Succeed([userId |-> decoded.value.userId.s,
                username |-> decoded.value.userId.s,
                isAuthenticated |-> TRUE,
                loginTime |-> nowSession],
               <<"validateToken">> \o decoded.calls,
               Append(decoded.reads, nowSession))

\* validateToken without the test for a missing token.
validateToken_NoMissingCheck(token, nowDecode, nowSession) ==
  NewUserSession(decodeToken(token, nowDecode), nowSession)

\* validateToken(token); nowDecode is the reading of Date.now() in
\* decodeToken, nowSession the reading for loginTime.
validateToken(token, nowDecode, nowSession) ==
  IF IsFalsyToken(token)
  THEN Fail("TokenError", "Token is required", "TOKEN_REQUIRED",
            <<"validateToken">>, <<>>)
  ELSE NewUserSession(decodeToken(token, nowDecode), nowSession)

\* new SecuredActionResult(...) from the outcome of decodeToken, a failure
\* mapped to AuthorizationError.
NewSecuredActionResult(decoded, actionType, nowResult) ==
  IF decoded.exit # "success"
  THEN Fail("AuthorizationError", decoded.message, decoded.code,
            <<"performSecuredAction">> \o decoded.calls, decoded.reads)
  ELSE IF ~IsSchemaString(decoded.value.userId)
  THEN Die("ParseError", <<"performSecuredAction">> \o decoded.calls,
           Append(decoded.reads, nowResult))
  ELSE Succeed([message |-> <<"Secured action \"", actionType,
                              "\" completed successfully">>,
                timestamp |-> nowResult,
                userId |-> decoded.value.userId.s,
                actionType |-> actionType],
               <<"performSecuredAction">> \o decoded.calls,
               Append(decoded.reads, nowResult))

\* performSecuredAction(token, actionType); nowDecode is the reading of
\* Date.now() in decodeToken, nowResult the reading for the timestamp.
performSecuredAction(token, actionType, nowDecode, nowResult) ==
  NewSecuredActionResult(decodeToken(token, nowDecode), actionType, nowResult)

\* A greeting that is refused, as a call that needs a session would be.
getPublicGreeting_Refused(now) ==
  Fail("TokenError", "Token is required", "TOKEN_REQUIRED",
       <<"getPublicGreeting">>, <<now>>)

\* getPublicGreeting(); now is the reading of new Date().
getPublicGreeting(now) ==
  Succeed([message |->
             "Hello! Welcome to the Vibe Lottery authentication demo.",
           timestamp |-> now, serverTime |-> now],
          <<"getPublicGreeting">>, <<now>>)

(***************************************************************************)
(* Bounds and inputs.                                                      *)
(***************************************************************************)
\* The number of calls and idle periods in one behaviour.
MaxOps == 3

\* The time, in milliseconds, the clock advances between two consecutive
\* readings of Date.now() in one operation: none, or enough to pass into
\* the next millisecond.
Delays == {0, 1}

\* Date.now() when the service starts: on a second boundary, and 501 ms
\* short of the next one.
ClockStarts == {1000, 1499}

\* Idle time between two calls: a second, and the lifetime of a token.
IdleTimes == {1000, TokenLifetime * 1000}

Usernames ==
  { Str_admin,
    <<"A", "d", "m", "i", "n">>,
    <<"a", "d", "m", "i", "n", " ">>,
    <<>> }

Passwords ==
  { <<>>, <<" ">>, <<" ", "\\x9">>, <<"p">>, <<" ", "p", " ">> }

ActionTypes == { <<"x">>, <<"d", "e", "l">> }

\* exp values around the clock of the model: 0, the seconds the clock
\* passes through, and one beyond every clock value.
ForgedExps == {0, 1, 2, 99999}

\* Payloads a caller can encode into a token string itself (the token is
\* not signed).
ForgedPayloads ==
  { JObj(<<Member(Str_userId, JStr(Str_admin)), Member(Str_exp, JNum(e))>>) :
      e \in ForgedExps }
  \cup
  { JObj(<<>>),
    JObj(<<Member(Str_userId, JStr(Str_admin))>>),
    JObj(<<Member(Str_exp, JNum(99999))>>),
    JObj(<<Member(Str_userId, JStr(<<>>)), Member(Str_exp, JNum(99999))>>),
    JObj(<<Member(Str_userId, JNum(5)), Member(Str_exp, JNum(99999))>>),
    JObj(<<Member(Str_userId, JStr(<<"b", "o", "b">>)),
           Member(Str_exp, JNum(-1))>>),
    JObj(<<Member(Str_userId, JStr(Str_admin)),
           Member(Str_exp, JStr(<<"x">>))>>),
    JNull,
    JNum(7) }

\* Strings that are no encoded payload: the empty string, one that is not
\* base64, and one that is base64 of bytes that are not JSON.
RawStrings ==
  { <<>>,
    <<"i", "n", "v", "a", "l", "i", "d", "-", "t", "o", "k", "e", "n">>,
    <<"a", "b", "c">> }

\* A token input is the argument with the payload it was encoded from
\* (undefined for a string that encodes none).
TokenInput(token, payload) == [token |-> token, payload |-> payload]

NoToken == TokenInput(Undefined, Undefined)

ForgedTokens ==
  { TokenInput(JStr(btoa(JSONstringify(p))), p) : p \in ForgedPayloads }

RawTokens == { TokenInput(JStr(s), Undefined) : s \in RawStrings }

\* The simulated latencies, in milliseconds.
AuthenticateSleep == 500

SecuredActionSleep == 300

GreetingSleep == 200

(***************************************************************************)
(* State.                                                                  *)
(***************************************************************************)
VARIABLES
  clock,       \* Date.now(), in milliseconds
  request,     \* the last call: its operation and arguments
  response,    \* the outcome of the last call
  lastIssued,  \* the token input of the last successful authenticate
  nOps,        \* the number of steps taken
  resilient,   \* the resilient action: its attempts so far and its result
  localStorage,  \* the item 'auth-token' of the browser's storage
  authState,   \* the page's authState
  page,        \* the page's form and action state
  inflight,    \* the programs the page has started, by handler
  storageCall, \* the last call of the storage and whether it threw
  uncaught,    \* the handlers an exception or rejection escaped from
  mounted,     \* the page's mount effect has run
  stream       \* the ReadableStream of streamEvents and its timers

\* The state of the page.
clientVars ==
  <<localStorage, authState, page, inflight, storageCall, uncaught, mounted>>

vars ==
  <<clock, request, response, lastIssued, nOps, resilient, localStorage,
    authState, page, inflight, storageCall, uncaught, mounted, stream>>

\* useState(new AuthState({ token: null, isAuthenticated: false, user: null })).
NoAuthState == [token |-> JNull, isAuthenticated |-> FALSE, user |-> JNull]

\* The initial values of the other useState calls of the page.
InitialPage ==
  [isLogging |-> FALSE, loginResult |-> JNull, securedResult |-> JNull,
   greetingResult |-> JNull, resilientResult |-> JNull,
   isSecuredLoading |-> FALSE, isGreetingLoading |-> FALSE,
   isResilientLoading |-> FALSE]

\* A handler that has started no program.
NotStarted == [status |-> "idle"]

\* No call of localStorage was made yet.
NoStorageCall == [op |-> "none", by |-> "none", threw |-> FALSE, nth |-> 0]

\* The page before it is mounted, over a storage holding item.
PageAt(item) ==
  /\ localStorage = item
  /\ authState = NoAuthState
  /\ page = InitialPage
  /\ inflight = [validateStoredToken |-> NotStarted,
                 handleLogin |-> NotStarted,
                 handleSecuredAction |-> NotStarted,
                 handleGreeting |-> NotStarted]
  /\ storageCall = NoStorageCall
  /\ uncaught = {}
  /\ mounted = FALSE

\* The resilient action before it is started.
NoResilient == [status |-> "idle"]

\* streamEvents before it is called.
NoStream == [status |-> "none"]

NoRequest == [op |-> "none"]

NoResponse == [exit |-> "none"]

Init ==
  /\ clock \in ClockStarts
  /\ request = NoRequest
  /\ response = NoResponse
  /\ lastIssued = NoToken
  /\ nOps = 0
  /\ resilient = NoResilient
  /\ stream = NoStream
  /\ PageAt(JNull)

\* The token arguments a caller can pass: none, the issued token, a forged
\* one or any other string.
TokenInputs == {NoToken, lastIssued} \cup ForgedTokens \cup RawTokens

\* The clock after an operation that made the readings reads.
ClockAfter(reads) == IF reads = <<>> THEN clock ELSE reads[Len(reads)]

\* A call req returns out; issued is the token input last issued after it.
Return(req, out, issued) ==
  /\ nOps < MaxOps
  /\ nOps' = nOps + 1
  /\ request' = req
  /\ response' = out
  /\ clock' = ClockAfter(out.reads)
  /\ lastIssued' = issued
  /\ UNCHANGED <<resilient, stream, clientVars>>

\* The token input a successful authenticate issued.
Issued(out, payload) ==
  IF out.exit = "success" THEN TokenInput(JStr(out.value.token), payload)
  ELSE lastIssued

\* authenticate returns out; the clock readings are nowIat, nowExp, nowToken.
AuthenticateAt(credentials, nowIat, nowExp, nowToken) ==
  Return([op |-> "authenticate", credentials |-> credentials],
         authenticate(credentials, nowIat, nowExp, nowToken),
         Issued(authenticate(credentials, nowIat, nowExp, nowToken),
                TokenPayload(credentials.username, nowIat, nowExp)))

Authenticate ==
  \E username \in Usernames, password \in Passwords, d1, d2 \in Delays :
    AuthenticateAt([username |-> username, password |-> password],
                   clock + AuthenticateSleep,
                   clock + AuthenticateSleep + d1,
                   clock + AuthenticateSleep + d1 + d2)

ValidateToken ==
  \E input \in TokenInputs, d1 \in Delays :
    Return([op |-> "validateToken", input |-> input, now |-> clock],
           validateToken(input.token, clock, clock + d1),
           lastIssued)

PerformSecuredAction ==
  \E input \in TokenInputs, actionType \in ActionTypes, d1 \in Delays :
    Return([op |-> "performSecuredAction", input |-> input,
            actionType |-> actionType, now |-> clock],
           performSecuredAction(input.token, actionType, clock,
                                clock + SecuredActionSleep + d1),
           lastIssued)

GetPublicGreeting ==
  Return([op |-> "getPublicGreeting"],
         getPublicGreeting(clock + GreetingSleep),
         lastIssued)

\* Time passes between two calls.
Idle ==
  \E d \in IdleTimes :
    /\ nOps < MaxOps
    /\ nOps' = nOps + 1
    /\ clock' = clock + d
    /\ UNCHANGED <<request, response, lastIssued, stream, resilient, clientVars>>

Next ==
  \/ Authenticate
  \/ ValidateToken
  \/ PerformSecuredAction
  \/ GetPublicGreeting
  \/ Idle

Spec == Init /\ [][Next]_vars

(***************************************************************************)
(* Properties.                                                             *)
(***************************************************************************)
\* The functions the last call entered.
Entered == {response.calls[i] : i \in 1..Len(response.calls)}

FailedWith(tag, code) ==
  /\ response.exit = "failure"
  /\ response.tag = tag
  /\ response.code = code

\* The password holds a character that trimming keeps.
HasVisibleChar(password) ==
  \E i \in 1..Len(password) :
    password[i] \notin {" ", "\\x9", "\\x10", "\\x11", "\\x12", "\\x13"}

\* The payload a token string decodes to.
PayloadOf(tokenString) == ParseToken(JStr(tokenString)).v

\* C1: for every username other than exactly "admin" and every password,
\* empty and blank ones included, authenticate fails with
\* AuthenticationError INVALID_USERNAME before the password is looked at,
\* and issues no token (generateToken is not entered, the clock is not read).
C1_InvalidUsername ==
  (request.op = "authenticate" /\ request.credentials.username # Str_admin)
    => /\ FailedWith("AuthenticationError", "INVALID_USERNAME")
       /\ response.message = "Invalid username. Only \"admin\" is allowed."
       /\ "generateToken" \notin Entered
       /\ response.reads = <<>>

\* A username that differs from "admin" by a trailing space, with an empty
\* password, was rejected for its username.
C1_Witness ==
  /\ request.op = "authenticate"
  /\ request.credentials.username = <<"a", "d", "m", "i", "n", " ">>
  /\ request.credentials.password = <<>>
  /\ FailedWith("AuthenticationError", "INVALID_USERNAME")

\* C2 as stated: for username "admin" and any non-empty password,
\* authenticate succeeds with userId "admin" and a non-empty token string.
C2_AnyNonEmptyPassword ==
  (/\ request.op = "authenticate"
   /\ request.credentials.username = Str_admin
   /\ request.credentials.password # <<>>)
    => /\ response.exit = "success"
       /\ response.value.userId = Str_admin
       /\ response.value.token # <<>>

\* C2: for username "admin" and any password that is not empty after
\* trimming, authenticate succeeds with an AuthToken whose userId is "admin"
\* and whose token string is not empty, and never with an
\* AuthenticationError.
C2_NonBlankPassword ==
  (/\ request.op = "authenticate"
   /\ request.credentials.username = Str_admin
   /\ HasVisibleChar(request.credentials.password))
    => /\ response.exit = "success"
       /\ response.value.userId = Str_admin
       /\ response.value.token # <<>>
       /\ "generateToken" \in Entered

\* "admin" with a password padded by spaces was given a token.
C2_Witness ==
  /\ request.op = "authenticate"
  /\ request.credentials.username = Str_admin
  /\ request.credentials.password = <<" ", "p", " ">>
  /\ response.exit = "success"
  /\ response.value.token # <<>>

\* C3: for username "admin", authenticate fails with AuthenticationError
\* PASSWORD_REQUIRED exactly when the password is empty after trimming, and
\* then no token is issued.
C3_PasswordRequired ==
  (request.op = "authenticate" /\ request.credentials.username = Str_admin)
    => /\ FailedWith("AuthenticationError", "PASSWORD_REQUIRED")
            <=> ~HasVisibleChar(request.credentials.password)
       /\ ~HasVisibleChar(request.credentials.password)
            => /\ response.message = "Password is required"
               /\ "generateToken" \notin Entered
               /\ response.reads = <<>>

\* "admin" with a password of a space and a tab was told a password is
\* required.
C3_Witness ==
  /\ request.op = "authenticate"
  /\ request.credentials.username = Str_admin
  /\ request.credentials.password = <<" ", "\\x9">>
  /\ FailedWith("AuthenticationError", "PASSWORD_REQUIRED")

\* C4: every token a successful authenticate issues decodes to a payload
\* with exp = iat + 3600, however the clock advances between the readings.
C4_ExpIsIatPlusLifetime ==
  (request.op = "authenticate" /\ response.exit = "success")
    => LET payload == PayloadOf(response.value.token)
       IN  /\ payload.t = "obj"
           /\ GetProp(payload, Str_exp).n = GetProp(payload, Str_iat).n + 3600

\* C5: a token issued by authenticate for "admin" and validated no later
\* than the second it expires in gives a session with userId "admin",
\* username equal to userId and isAuthenticated true.
C5_RoundTrip ==
  (/\ request.op = "validateToken"
   /\ lastIssued # NoToken
   /\ request.input = lastIssued
   /\ request.now \div 1000 <= GetProp(lastIssued.payload, Str_exp).n)
    => /\ response.exit = "success"
       /\ response.value.userId = Str_admin
       /\ response.value.username = response.value.userId
       /\ response.value.isAuthenticated

\* The issued token was validated an hour or more after the service started.
C5_Witness ==
  /\ request.op = "validateToken"
  /\ lastIssued # NoToken
  /\ request.input = lastIssued
  /\ request.now >= 3600000
  /\ response.exit = "success"
  /\ response.value.userId = Str_admin

\* The last call is a validation of the token: validateToken, or the check
\* performSecuredAction makes.
IsTokenCheck == request.op \in {"validateToken", "performSecuredAction"}

\* The payload is an object with a non-empty userId string and a non-zero
\* numeric exp.
IsWellFormed(payload) ==
  /\ payload.t = "obj"
  /\ GetProp(payload, Str_userId).t = "str"
  /\ GetProp(payload, Str_userId).s # <<>>
  /\ GetProp(payload, Str_exp).t = "num"
  /\ GetProp(payload, Str_exp).n # 0

HasNumericExp(payload) ==
  payload.t = "obj" /\ GetProp(payload, Str_exp).t = "num"

C7_MissingToken ==
  (/\ request.op = "validateToken"
   /\ \/ request.input.token.t = "undefined"
      \/ request.input.token = JStr(<<>>))
    => /\ FailedWith("TokenError", "TOKEN_REQUIRED")
       /\ response.message = "Token is required"
       /\ "decodeToken" \notin Entered
       /\ response.reads = <<>>

\* validateToken("") was refused as a missing token.
C7_Witness ==
  /\ request.op = "validateToken"
  /\ request.input.token = JStr(<<>>)
  /\ FailedWith("TokenError", "TOKEN_REQUIRED")

\* The argument is a non-empty string that is not base64 of a JSON text.
IsUnparseable(input) ==
  /\ input.token.t = "str"
  /\ input.token.s # <<>>
  /\ input.payload.t = "undefined"

\* The payload is a JSON object without a userId or an exp, or with a
\* falsy one.
LacksField(payload) ==
  /\ payload.t = "obj"
  /\ \/ ~Truthy(GetProp(payload, Str_userId))
     \/ ~Truthy(GetProp(payload, Str_exp))

IsValidAt(payload, nowSeconds) ==
  /\ payload.t = "obj"
  /\ Truthy(GetProp(payload, Str_userId))
  /\ Truthy(GetProp(payload, Str_exp))
  /\ GetProp(payload, Str_exp).t = "num"
       => GetProp(payload, Str_exp).n >= nowSeconds

\* C9: performSecuredAction with a token valid at the time of the check
\* succeeds, echoing the actionType and the token's userId; with any other
\* token it fails with an AuthorizationError.
C9_SecuredActionOutcome ==
  request.op = "performSecuredAction" =>
    LET payload == request.input.payload IN
    IF IsValidAt(payload, request.now \div 1000)
    THEN /\ response.exit = "success"
         /\ response.value.actionType = request.actionType
         /\ JStr(response.value.userId) = GetProp(payload, Str_userId)
    ELSE /\ response.exit = "failure"
         /\ response.tag = "AuthorizationError"

\* C10: for every token string, the empty one included, performSecuredAction
\* fails exactly when validateToken fails on the same token at the same
\* clock value, and its AuthorizationError has the message and the code of
\* the TokenError of validateToken.
C10_SameAsValidateToken ==
  (request.op = "performSecuredAction" /\ request.input.token.t = "str") =>
    LET validated == validateToken(request.input.token, request.now,
                                   request.now)
    IN  /\ response.exit = "failure" <=> validated.exit = "failure"
        /\ response.exit = "failure"
             => /\ response.tag = "AuthorizationError"
                /\ response.message = validated.message
                /\ response.code = validated.code


\* C11: getPublicGreeting takes no input and succeeds with the fixed
\* greeting message after any sequence of calls, whether or not a token was
\* issued before and whatever the previous call returned; it never fails.
C11_GreetingAlwaysSucceeds ==
  request.op = "getPublicGreeting" =>
    /\ response.exit = "success"
    /\ response.value.message =
         "Hello! Welcome to the Vibe Lottery authentication demo."

\* A greeting served as the third step, after a token was issued.
C11_Witness ==
  /\ request.op = "getPublicGreeting"
  /\ response.exit = "success"
  /\ lastIssued # NoToken
  /\ nOps = MaxOps


(***************************************************************************)
(* The resilient action: an operation under Effect.retry({ times: 3 })     *)
(* inside Effect.timeout of 5 seconds, as the page runs it                 *)
(* (handleResilientAction) and as the server function resilientAction      *)
(* runs it.                                                                *)
(***************************************************************************)
\* times of Effect.retry: the retries made after the first execution.
RetryTimes == 3

\* The duration of Effect.timeout, in milliseconds.
TimeoutMs == 5000

\* Effect.sleep('1000 millis') of the server's operation.
ResilientSleep == 1000

\* A timer fires when its delay has passed or later: on time, or late by
\* the length of the timeout.
TimerLateness == {0, TimeoutMs}

Str_token == <<"t", "o", "k", "e", "n">>

Str_shouldFail == <<"s", "h", "o", "u", "l", "d", "F", "a", "i", "l">>

\* A property declared Schema.optional(type): absent, or of the type.
IsOptional(x, type) == x.t \in {"undefined", type}

\* Schema.decodeUnknownSync(ResilientActionSchema) accepts the data.
IsResilientData(data) ==
  /\ data.t = "obj"
  /\ IsOptional(GetProp(data, Str_token), "str")
  /\ IsOptional(GetProp(data, Str_shouldFail), "bool")

\* The record the validator returns for accepted data.
ValidatedResilientData(token, shouldFail) ==
  [ok |-> TRUE,
   token |-> IF Truthy(token) THEN token.s ELSE <<>>,
   shouldFail |-> Truthy(shouldFail)]

\* The validator on dataToValidate; [ok |-> FALSE] where it throws.
ValidateResilientData(dataToValidate) ==
  IF IsResilientData(dataToValidate)
  THEN ValidatedResilientData(GetProp(dataToValidate, Str_token),
                              GetProp(dataToValidate, Str_shouldFail))
  ELSE [ok |-> FALSE, token |-> <<>>, shouldFail |-> FALSE]

\* The validator of resilientAction: data || {} is decoded.
resilientActionValidator(data) ==
  ValidateResilientData(IF Truthy(data) THEN data ELSE JObj(<<>>))

\* One execution of the operation: how it exits, the time it took, and the
\* error it failed with or the message it succeeded with.
Executed(exit, took, tag, message) ==
  [exit |-> exit, took |-> took, tag |-> tag, message |-> message]

\* The operation of handleResilientAction; shouldFail is Math.random() < 0.5.
clientOperation(shouldFail) ==
  IF shouldFail THEN Executed("failure", 0, "Error", "Simulated failure")
  ELSE Executed("success", 0, "", "Operation succeeded")

\* The operation of resilientAction after the token step: session is the
\* outcome of validateToken, or a success where no token was given.
AfterTokenStep(session, data, randomFail, took) ==
  IF session.exit = "failure"
  THEN Executed("failure", 0, session.tag, session.message)
  ELSE IF session.exit = "die"
  THEN Executed("die", 0, session.defect, "")
  ELSE IF data.shouldFail /\ randomFail
  THEN Executed("failure", 0, "Error", "Simulated network failure")
  ELSE Executed("success", took, "",
                "Resilient action completed successfully")

\* The token strings a caller passes to resilientAction: a valid one, an
\* expired one, one whose userId is no string, and one that decodes to no
\* JSON.
ResilientTokens ==
  { btoa(JSONstringify(p)) :
      p \in { JObj(<<Member(Str_userId, JStr(Str_admin)),
                     Member(Str_exp, JNum(e))>>) : e \in {1, 99999} }
            \cup
            { JObj(<<Member(Str_userId, JNum(5)),
                     Member(Str_exp, JNum(99999))>>) } }
  \cup
  { <<"a", "b", "c">> }

\* validateToken on these tokens at the clock values the service starts
\* with, computed once.
ValidatedSessions ==
  { <<call, validateToken(JStr(call[1]), call[2], call[2])>> :
      call \in ResilientTokens \X ClockStarts }

\* yield* authService.validateToken(data.token) at clock reading now.
ValidatedSession(token, now) ==
  IF \E known \in ValidatedSessions : known[1] = <<token, now>>
  THEN (CHOOSE known \in ValidatedSessions : known[1] = <<token, now>>)[2]
  ELSE validateToken(JStr(token), now, now)

\* The operation of resilientAction; randomFail is Math.random() < 0.7 and
\* took the time after which the sleep of 1000 ms ended.
serverOperation(data, now, randomFail, took) ==
  AfterTokenStep(IF data.token # <<>>
                 THEN ValidatedSession(data.token, now)
                 ELSE Succeed(<<>>, <<>>, <<>>),
                 data, randomFail, took)

\* The schedule that counts the first execution among the three.
ShouldRetry_CountsFirstRun(executions) == executions < RetryTimes

\* The schedule that allows no retry.
ShouldRetry_Never(executions) == FALSE

\* Effect.retry({ times: 3 }) after the failure of execution number
\* executions: the schedule recurs for the first three failures.
ShouldRetry(executions) == executions <= RetryTimes

\* A timeout that never interrupts.
TimesOut_Never(finish) == FALSE

\* Effect.timeout: the operation is interrupted when the timeout, started
\* with the first execution, has passed before the operation finishes at
\* finish.
TimesOut(finish) == finish >= TimeoutMs


\* The promise a run returns: resolved with a value, or rejected.
Resolved(value) == [settled |-> "resolved", value |-> value]

Rejected(reason) == [settled |-> "rejected", reason |-> reason]

Pending == [settled |-> "pending"]

\* The record Effect.match makes of a failure of the resilient action: the
\* message of the error (every error here is an instance of Error).
ResilientFailure(message) ==
  [success |-> FALSE, error |-> message, code |-> "RESILIENT_ACTION_ERROR"]

\* The record made of a success: by handleResilientAction on the page, by
\* onSuccess of resilientAction on the server; now is the reading of
\* new Date().
ResilientSuccess(site, message, now) ==
  [success |-> TRUE,
   data |-> [message |-> message,
             retries |-> IF site = "client" THEN "Completed with retry logic"
                         ELSE "This action supports automatic retries",
             timestamp |-> now]]

\* The resilient action while it runs: the executions of the operation so
\* far, the time since it started, and how each execution ended.
Running(site, data) ==
  [status |-> "running", site |-> site, data |-> data, executions |-> 0,
   elapsed |-> 0, history |-> <<>>, result |-> Pending]

\* The resilient action r after a last execution that ended as last, at
\* time elapsed, with the promise result.
Finished(r, last, elapsed, result) ==
  [r EXCEPT !.status = "done", !.executions = @ + 1, !.elapsed = elapsed,
            !.history = Append(@, last), !.result = result]

\* The resilient action r after the execution once of its operation,
\* started at clock reading now.
AfterExecution(r, once, now) ==
  IF TimesOut(r.elapsed + once.took)
  THEN Finished(r, "interrupted", TimeoutMs,
                Resolved(ResilientFailure("TimeoutException")))
  ELSE IF once.exit = "success"
  THEN Finished(r, "success", r.elapsed + once.took,
                Resolved(ResilientSuccess(r.site, once.message,
                                          now + once.took)))
  ELSE IF once.exit = "die"
  THEN Finished(r, "die", r.elapsed, Rejected(once.tag))
  ELSE IF ShouldRetry(r.executions + 1)
  THEN [r EXCEPT !.executions = @ + 1, !.history = Append(@, "failure")]
  ELSE Finished(r, "failure", r.elapsed,
                Resolved(ResilientFailure(once.message)))

\* The operation of the site the resilient action runs at.
Operation(r, now, randomFail, took) ==
  IF r.site = "client" THEN clientOperation(randomFail)
  ELSE serverOperation(r.data, now, randomFail, took)

\* The data a caller passes to resilientAction: none, an empty record, a
\* token that is valid, malformed, expired or carries a userId that is no
\* string, a request for failures, a token that is no string, and a number.
ResilientInputs ==
  { Undefined,
    JObj(<<>>),
    JObj(<<Member(Str_shouldFail, JBool(TRUE))>>),
    JObj(<<Member(Str_token, JNum(5))>>),
    JNum(7) }
  \cup
  { JObj(<<Member(Str_token, JStr(t)), Member(Str_shouldFail, JBool(b))>>) :
      t \in ResilientTokens, b \in BOOLEAN }

\* The page runs the resilient action (the button is disabled while one
\* runs).
HandleResilientAction ==
  /\ resilient.status # "running"
  /\ nOps < MaxOps
  /\ nOps' = nOps + 1
  /\ resilient' = Running("client", [token |-> <<>>, shouldFail |-> TRUE])
  /\ page' = [page EXCEPT !.isResilientLoading = TRUE,
                          !.resilientResult = JNull]
  /\ UNCHANGED <<clock, request, response, lastIssued, stream, localStorage,
                 authState, inflight, storageCall, uncaught, mounted>>

\* The resilient action started with validated data, or ended by the
\* validator's exception.
Validated(data) ==
  IF data.ok
  THEN Running("server", [token |-> data.token, shouldFail |-> data.shouldFail])
  ELSE [Running("server", [token |-> <<>>, shouldFail |-> FALSE])
          EXCEPT !.status = "done",
                 !.result = Rejected("Resilient action validation failed")]

\* A call of the server function resilientAction.
ResilientAction ==
  \E data \in ResilientInputs :
    /\ resilient.status # "running"
    /\ nOps < MaxOps
    /\ nOps' = nOps + 1
    /\ resilient' = Validated(resilientActionValidator(data))
    /\ UNCHANGED <<clock, request, response, lastIssued, stream, clientVars>>

\* What the page shows of the resilient action r: when the program of
\* handleResilientAction has ended, its result (none when the promise is
\* rejected) and the loading flag reset by finally.
Published(r) ==
  IF r.site = "client" /\ r.status = "done"
  THEN /\ page' = [page EXCEPT !.isResilientLoading = FALSE,
                               !.resilientResult =
                                  IF r.result.settled = "resolved"
                                  THEN r.result.value ELSE @]
       /\ uncaught' = IF r.result.settled = "resolved" THEN uncaught
                      ELSE uncaught \cup {"handleResilientAction"}
  ELSE UNCHANGED <<page, uncaught>>

\* One execution of the operation and what retry and timeout make of it.
Execute ==
  \E randomFail \in BOOLEAN, late \in TimerLateness :
    /\ resilient.status = "running"
    /\ resilient' =
         AfterExecution(resilient,
                        Operation(resilient, clock + resilient.elapsed,
                                  randomFail, ResilientSleep + late),
                        clock + resilient.elapsed)
    /\ Published(resilient')
    /\ UNCHANGED <<clock, request, response, lastIssued, stream, nOps,
                   localStorage, authState, inflight, storageCall, mounted>>

ResilientNext ==
  \/ HandleResilientAction
  \/ ResilientAction
  \/ Execute

\* A running fiber is executed until it ends.
ResilientSpec == Init /\ [][ResilientNext]_vars /\ WF_vars(Execute)


(***************************************************************************)
(* Properties of the resilient action.                                     *)
(***************************************************************************)
\* The resilient action has ended and every execution of its operation
\* failed (none was interrupted by the timeout).
AlwaysFailed ==
  /\ resilient.status = "done"
  /\ resilient.executions > 0
  /\ \A i \in 1..Len(resilient.history) : resilient.history[i] = "failure"

ReportsFailure ==
  /\ resilient.result.settled = "resolved"
  /\ resilient.result.value.success = FALSE

ReportsSuccess ==
  /\ resilient.result.settled = "resolved"
  /\ resilient.result.value.success = TRUE
  /\ "error" \notin DOMAIN resilient.result.value

\* C12 as claimed: when every execution of the operation fails at once, the
\* resilient action executes it exactly 3 times in total and then reports
\* failure.
C12_ThreeExecutions ==
  AlwaysFailed => (resilient.executions = 3 /\ ReportsFailure)

\* C12 as amended: when every execution of the operation fails at once, the
\* resilient action executes it exactly 4 times in total, the first
\* execution and the 3 retries of Effect.retry({ times: 3 }), and then
\* reports failure.
C12_FirstRunAndThreeRetries ==
  AlwaysFailed => (resilient.executions = 1 + RetryTimes /\ ReportsFailure)

\* The page's resilient action ended after failures only.
C12_Witness ==
  /\ AlwaysFailed
  /\ resilient.site = "client"
  /\ resilient.result.value.error = "Simulated failure"

\* C13: when the operation fails on its first N-1 executions and succeeds
\* on the N-th, 1 <= N <= 3, the resilient action returns success after
\* exactly N executions and its result carries none of the failures: within
\* the first 3 executions it ends only by a success (or by the timeout or a
\* defect), never by reporting a failure, and it ends at the first success.
C13_SucceedsOnNth ==
  /\ resilient.status # "idle"
       => Len(resilient.history) = resilient.executions
  /\ \A n \in 1..RetryTimes :
       ( /\ resilient.status # "idle"
         /\ resilient.executions >= n
         /\ \A i \in 1..(n - 1) : resilient.history[i] = "failure"
         /\ resilient.history[n] = "success" )
       => /\ resilient.status = "done"
          /\ resilient.executions = n
          /\ ReportsSuccess
  /\ ( /\ resilient.status = "done"
       /\ resilient.executions \in 1..RetryTimes )
       => resilient.history[resilient.executions] # "failure"

\* The server's resilient action succeeded on the third execution, after
\* two failures.
C13_Witness ==
  /\ resilient.status = "done"
  /\ resilient.site = "server"
  /\ resilient.history = <<"failure", "failure", "success">>
  /\ ReportsSuccess

Str_username == <<"u", "s", "e", "r", "n", "a", "m", "e">>

Str_password == <<"p", "a", "s", "s", "w", "o", "r", "d">>

Str_actionType == <<"a", "c", "t", "i", "o", "n", "T", "y", "p", "e">>

\* Schema.decodeUnknownSync(Schema.Struct(...)) of required string fields
\* accepts the data.
IsStructOfStrings(data, fields) ==
  /\ data.t = "obj"
  /\ \A f \in fields : GetProp(data, f).t = "str"

\* The validators accept the data: it decodes, and no field is empty.
IsAccepted(data, fields) ==
  /\ IsStructOfStrings(data, fields)
  /\ \A f \in fields : Truthy(GetProp(data, f))

\* onFailure of a handler: the message and code of an error with one of
\* the tags, the handler's own message and code for any other failure.
FailureRecord(out, tags, error, code) ==
  IF out.tag \in tags
  THEN [success |-> FALSE, error |-> out.message, code |-> out.code]
  ELSE [success |-> FALSE, error |-> error, code |-> code]

\* The promise of a handler whose program ended as out, a success being
\* turned into the record data.
Settled(out, data, tags, error, code) ==
  IF out.exit = "success" THEN Resolved([success |-> TRUE, data |-> data])
  ELSE IF out.exit = "failure"
  THEN Resolved(FailureRecord(out, tags, error, code))
  ELSE Rejected(out.defect)

\* The handler of loginUser on the outcome out of authenticate.
LoginRecord(out) ==
  Settled(out, IF out.exit = "success"
               THEN [token |-> out.value.token,
                     expiresAt |-> out.value.expiresAt,
                     userId |-> out.value.userId]
               ELSE <<>>,
          {"AuthenticationError"}, "Authentication failed", "AUTH_ERROR")

\* The credentials the validator of loginUser returns.
TrimmedCredentials(data) ==
  [username |-> trim(GetProp(data, Str_username).s),
   password |-> trim(GetProp(data, Str_password).s)]

\* The server function loginUser(data).
loginUser(data, nowIat, nowExp, nowToken) ==
  IF ~IsAccepted(data, {Str_username, Str_password})
  THEN Rejected("Login validation failed")
  ELSE LoginRecord(authenticate(TrimmedCredentials(data), nowIat, nowExp,
                                nowToken))

\* The handler of the server function performSecuredAction on the outcome
\* out of the service.
SecuredActionRecord(out) ==
  Settled(out, IF out.exit = "success"
               THEN [message |-> out.value.message,
                     timestamp |-> out.value.timestamp,
                     userId |-> out.value.userId,
                     actionType |-> out.value.actionType]
               ELSE <<>>,
          {"AuthorizationError", "TokenError"}, "Action failed",
          "ACTION_ERROR")

\* The server function performSecuredAction(data).
serverPerformSecuredAction(data, nowDecode, nowResult) ==
  IF ~IsAccepted(data, {Str_token, Str_actionType})
  THEN Rejected("Secured action validation failed")
  ELSE SecuredActionRecord(
         performSecuredAction(JStr(trim(GetProp(data, Str_token).s)),
                              trim(GetProp(data, Str_actionType).s),
                              nowDecode, nowResult))

\* The handler of validateAuthToken on the outcome out of validateToken.
SessionRecord(out) ==
  Settled(out, IF out.exit = "success"
               THEN [userId |-> out.value.userId,
                     username |-> out.value.username,
                     isAuthenticated |-> out.value.isAuthenticated,
                     loginTime |-> out.value.loginTime]
               ELSE <<>>,
          {"TokenError"}, "Token validation failed", "VALIDATION_ERROR")

\* The server function validateAuthToken(data).
validateAuthToken(data, nowDecode, nowSession) ==
  IF ~IsAccepted(data, {Str_token})
  THEN Rejected("Token validation failed")
  ELSE SessionRecord(validateToken(JStr(trim(GetProp(data, Str_token).s)),
                                   nowDecode, nowSession))

\* The handler of the server function getPublicGreeting on the outcome out
\* of the service.
GreetingRecord(out) ==
  IF out.exit = "success"
  THEN Resolved([success |-> TRUE,
                 data |-> [message |-> out.value.message,
                           timestamp |-> out.value.timestamp,
                           serverTime |-> out.value.serverTime]])
  ELSE Resolved([success |-> FALSE, error |-> "Failed to get greeting",
                 code |-> "GREETING_ERROR"])

\* The server function getPublicGreeting(data): the validator returns {}
\* for every data.
serverGetPublicGreeting(data, now) == GreetingRecord(getPublicGreeting(now))


\* The data callers pass to loginUser: usernames that are accepted, padded
\* or empty with passwords that are accepted or blank, a record without
\* password, one whose username is a number, and no record.
LoginInputs ==
  { JObj(<<Member(Str_username, JStr(u)), Member(Str_password, JStr(p))>>) :
      u \in {Str_admin, <<" ", "a", "d", "m", "i", "n">>, <<>>},
      p \in {<<"p">>, <<" ">>} }
  \cup
  { JObj(<<Member(Str_username, JStr(Str_admin))>>),
    JObj(<<Member(Str_username, JNum(5)),
           Member(Str_password, JStr(<<"p">>))>>),
    Undefined }

\* The data callers pass to a function that takes a token: each token
\* argument with an actionType, the issued token with an empty actionType
\* and without one, an empty record, and no record.
TokenDataInputs ==
  { JObj(<<Member(Str_token, t.token), Member(Str_actionType, JStr(<<"x">>))>>) :
      t \in TokenInputs }
  \cup
  { JObj(<<Member(Str_token, lastIssued.token),
           Member(Str_actionType, JStr(<<>>))>>),
    JObj(<<Member(Str_token, lastIssued.token)>>),
    JObj(<<>>),
    Undefined }

\* A call req of a server function returns the promise result at clock
\* reading finish; calls are made one after the other.
ServerReturn(req, result, finish, issued) ==
  /\ resilient.status # "running"
  /\ nOps < MaxOps
  /\ nOps' = nOps + 1
  /\ request' = req
  /\ response' = result
  /\ clock' = finish
  /\ lastIssued' = issued
  /\ UNCHANGED <<resilient, stream, clientVars>>

\* The token input a resolved login issued.
IssuedBy(result, payload) ==
  IF result.settled = "resolved" /\ result.value.success
  THEN TokenInput(JStr(result.value.data.token), payload)
  ELSE lastIssued

\* The clock after a call that resolved with a success at finish; a call
\* that is refused or fails takes no time.
FinishOf(result, finish) ==
  IF result.settled = "resolved" /\ result.value.success THEN finish
  ELSE clock

\* loginUser(data) returns result.
LoginUserAt(data, result, payload, finish) ==
  ServerReturn([op |-> "loginUser", data |-> data], result,
               FinishOf(result, finish), IssuedBy(result, payload))

LoginUser ==
  \E data \in LoginInputs, d1, d2 \in Delays :
    LoginUserAt(data,
                loginUser(data, clock + AuthenticateSleep,
                          clock + AuthenticateSleep + d1,
                          clock + AuthenticateSleep + d1 + d2),
                TokenPayload(Str_admin, clock + AuthenticateSleep,
                             clock + AuthenticateSleep + d1),
                clock + AuthenticateSleep + d1 + d2)

\* A call of a server function other than loginUser returns result.
ServerCallAt(op, data, result, finish) ==
  ServerReturn([op |-> op, data |-> data], result, FinishOf(result, finish),
               lastIssued)

ServerPerformSecuredAction ==
  \E data \in TokenDataInputs, d1 \in Delays :
    ServerCallAt("performSecuredAction", data,
                 serverPerformSecuredAction(data, clock,
                                            clock + SecuredActionSleep + d1),
                 clock + SecuredActionSleep + d1)

ValidateAuthToken ==
  \E data \in TokenDataInputs, d1 \in Delays :
    ServerCallAt("validateAuthToken", data,
                 validateAuthToken(data, clock, clock + d1), clock + d1)

ServerGetPublicGreeting ==
  \E data \in {Undefined, JObj(<<>>)} :
    ServerCallAt("getPublicGreeting", data,
                 serverGetPublicGreeting(data, clock + GreetingSleep),
                 clock + GreetingSleep)

ServerNext ==
  \/ LoginUser
  \/ ServerPerformSecuredAction
  \/ ValidateAuthToken
  \/ ServerGetPublicGreeting
  \/ ResilientAction
  \/ Execute

ServerSpec == Init /\ [][ServerNext]_vars


(***************************************************************************)
(* Properties of the server functions.                                     *)
(***************************************************************************)
\* A record {success: true, data} or {success: false, error, code}.
IsResultRecord(value) ==
  \/ value.success = TRUE /\ "data" \in DOMAIN value
  \/ value.success = FALSE /\ {"error", "code"} \subseteq DOMAIN value

IsResolvedRecord(promise) ==
  /\ promise.settled = "resolved"
  /\ IsResultRecord(promise.value)

\* C20: for every data, records with missing or empty fields included, each
\* of loginUser, performSecuredAction, validateAuthToken, getPublicGreeting
\* and resilientAction returns a promise resolved with a record
\* {success: true, data} or {success: false, error, code}; none returns a
\* rejected promise.
C20_UniformResult ==
  /\ request.op \in {"loginUser", "performSecuredAction",
                     "validateAuthToken", "getPublicGreeting"}
       => IsResolvedRecord(response)
  /\ (resilient.status = "done" /\ resilient.site = "server")
       => IsResolvedRecord(resilient.result)


(***************************************************************************)
(* The page /auth-demo: its mount effect, the validation of the stored     *)
(* token, login and logout. A handler runs to its end in one step; the     *)
(* program it starts with RuntimeClient.runPromise ends in a later step.   *)
(* A call of localStorage returns or throws.                               *)
(***************************************************************************)
\* A program started by a handler: the outcome out of the service call it
\* awaits, the token it was started with, the time due at which the call
\* returns, and the number of storage calls made before it was started.
Started(out, token, due) ==
  [status |-> "pending", out |-> out, token |-> token, due |-> due,
   since |-> storageCall.nth]

\* The next call of localStorage: op, made by handler by, and whether it
\* threw.
StorageCall(op, by, threw) ==
  [op |-> op, by |-> by, threw |-> threw, nth |-> storageCall.nth + 1]

\* The programs in flight.
Handlers ==
  {"validateStoredToken", "handleLogin", "handleSecuredAction",
   "handleGreeting"}

\* The program of handler h is the next to end: no other program in flight
\* is due earlier.
IsNextToEnd(h) ==
  /\ inflight[h].status = "pending"
  /\ \A other \in Handlers \ {h} :
       inflight[other].status = "pending"
         => inflight[other].due >= inflight[h].due

\* A program that does not sleep is running: validateToken and the
\* operation of handleResilientAction end before the page takes another
\* event or a timer fires.
Busy ==
  \/ inflight.validateStoredToken.status = "pending"
  \/ resilient.status = "running"

\* The page takes events: it is mounted and no such program is running.
Ready == mounted /\ ~Busy

\* A mount effect that validates no stored token.
LoadToken_Skips(savedToken, d) == UNCHANGED inflight

\* The mount effect where getItem returned savedToken: a stored token is
\* validated; d is the time between the two readings of the clock.
LoadToken(savedToken, d) ==
  IF Truthy(savedToken)
  THEN inflight' =
         [inflight EXCEPT !.validateStoredToken =
            Started(validateToken(savedToken, clock, clock + d), savedToken,
                    clock + d)]
  ELSE UNCHANGED inflight

\* The mount effect without its try/catch: an exception of getItem leaves
\* the effect.
Mount_Unguarded ==
  \E threw \in BOOLEAN, d \in Delays :
    /\ ~mounted
    /\ nOps < MaxOps
    /\ nOps' = nOps + 1
    /\ mounted' = TRUE
    /\ storageCall' = StorageCall("getItem", "useEffect", threw)
    /\ IF threw THEN UNCHANGED inflight ELSE LoadToken(localStorage, d)
    /\ uncaught' = IF threw THEN uncaught \cup {"useEffect"} ELSE uncaught
    /\ UNCHANGED <<clock, request, response, lastIssued, stream, resilient,
                   localStorage, authState, page>>

\* The mount effect: localStorage.getItem('auth-token') inside try/catch.
Mount ==
  \E threw \in BOOLEAN, d \in Delays :
    /\ ~mounted
    /\ nOps < MaxOps
    /\ nOps' = nOps + 1
    /\ mounted' = TRUE
    /\ storageCall' = StorageCall("getItem", "useEffect", threw)
    /\ IF threw THEN UNCHANGED inflight ELSE LoadToken(localStorage, d)
    /\ UNCHANGED <<clock, request, response, lastIssued, stream, resilient,
                   localStorage, authState, page, uncaught>>

\* handleError that leaves the storage alone.
HandleError_KeepsToken(threw) ==
  UNCHANGED <<storageCall, localStorage, uncaught, authState>>

\* handleError of validateStoredToken: localStorage.removeItem, then
\* console.error; an exception of removeItem leaves the catch callback.
HandleError(threw) ==
  /\ storageCall' = StorageCall("removeItem", "validateStoredToken", threw)
  /\ localStorage' = IF threw THEN localStorage ELSE JNull
  /\ uncaught' = IF threw THEN uncaught \cup {"validateStoredToken"}
                 ELSE uncaught
  /\ UNCHANGED authState

\* The program of validateStoredToken ends: a session makes the page
\* authenticated with the stored token, a failure or a defect rejects the
\* promise and handleError runs.
ValidateStoredTokenDone ==
  \E threw \in BOOLEAN :
    /\ IsNextToEnd("validateStoredToken")
    /\ inflight' = [inflight EXCEPT !.validateStoredToken.status = "done"]
    /\ clock' = inflight.validateStoredToken.due
    /\ IF inflight.validateStoredToken.out.exit = "success"
       THEN /\ authState' =
                 [token |-> inflight.validateStoredToken.token,
                  isAuthenticated |-> TRUE,
                  user |-> inflight.validateStoredToken.out.value]
            /\ UNCHANGED <<localStorage, storageCall, uncaught>>
       ELSE HandleError(threw)
    /\ UNCHANGED <<request, response, lastIssued, stream, resilient, nOps, page,
                   mounted>>


\* handleLogin with the form's username and password: the page shows the
\* login as running and starts the program.
HandleLoginWith(out) ==
  /\ page' = [page EXCEPT !.isLogging = TRUE, !.loginResult = JNull]
  /\ inflight' = [inflight EXCEPT !.handleLogin =
                    Started(out, JNull, ClockAfter(out.reads))]

\* The form is submitted (its fields and button are disabled while a login
\* runs and while the page is authenticated).
HandleLogin ==
  \E username \in Usernames, password \in Passwords, d1, d2 \in Delays :
    /\ Ready
    /\ ~page.isLogging
    /\ ~authState.isAuthenticated
    /\ nOps < MaxOps
    /\ nOps' = nOps + 1
    /\ HandleLoginWith(
         authenticate([username |-> username, password |-> password],
                      clock + AuthenticateSleep,
                      clock + AuthenticateSleep + d1,
                      clock + AuthenticateSleep + d1 + d2))
    /\ UNCHANGED <<clock, request, response, lastIssued, stream, resilient,
                   localStorage, authState, storageCall, uncaught, mounted>>

\* A program of handleLogin that makes the page authenticated whether or
\* not setItem threw.
LoggedIn_KeepsSession(authToken, threw) ==
  /\ storageCall' = StorageCall("setItem", "handleLogin", threw)
  /\ localStorage' = IF threw THEN localStorage ELSE JStr(authToken.token)
  /\ authState' =
       [token |-> JStr(authToken.token), isAuthenticated |-> TRUE,
        user |-> [userId |-> authToken.userId,
                  username |-> authToken.userId]]
  /\ page' = [page EXCEPT !.isLogging = FALSE]
  /\ uncaught' = uncaught

\* The program of handleLogin after authenticate returned authToken:
\* localStorage.setItem, setAuthState, setLoginResult. An exception of
\* setItem is a defect of the program: onFailure of Effect.match does not
\* run, the promise of runPromise is rejected, and only finally runs.
LoggedIn(authToken, threw) ==
  /\ storageCall' = StorageCall("setItem", "handleLogin", threw)
  /\ localStorage' = IF threw THEN localStorage ELSE JStr(authToken.token)
  /\ authState' =
       IF threw THEN authState
       ELSE [token |-> JStr(authToken.token), isAuthenticated |-> TRUE,
             user |-> [userId |-> authToken.userId,
                       username |-> authToken.userId]]
  /\ page' =
       IF threw THEN [page EXCEPT !.isLogging = FALSE]
       ELSE [page EXCEPT !.isLogging = FALSE,
                         !.loginResult =
                            [success |-> TRUE,
                             data |-> [token |-> authToken.token,
                                       userId |-> authToken.userId,
                                       expiresAt |-> authToken.expiresAt]]]
  /\ uncaught' = IF threw THEN uncaught \cup {"handleLogin"} ELSE uncaught

\* An onFailure of handleLogin that also ends the session.
LoginFailed_ClearsSession(error) ==
  /\ page' = [page EXCEPT !.isLogging = FALSE,
                          !.loginResult =
                             [success |-> FALSE, error |-> error.message,
                              code |-> error.code]]
  /\ localStorage' = JNull
  /\ authState' = NoAuthState
  /\ UNCHANGED <<storageCall, uncaught>>

\* onFailure of handleLogin: the error is shown as the login result.
LoginFailed(error) ==
  /\ page' = [page EXCEPT !.isLogging = FALSE,
                          !.loginResult =
                             [success |-> FALSE, error |-> error.message,
                              code |-> error.code]]
  /\ UNCHANGED <<localStorage, authState, storageCall, uncaught>>

\* The program of handleLogin ends.
HandleLoginDone ==
  \E threw \in BOOLEAN :
    /\ ~Busy
    /\ IsNextToEnd("handleLogin")
    /\ inflight' = [inflight EXCEPT !.handleLogin.status = "done"]
    /\ clock' = inflight.handleLogin.due
    /\ IF inflight.handleLogin.out.exit = "success"
       THEN LoggedIn(inflight.handleLogin.out.value, threw)
       ELSE LoginFailed(inflight.handleLogin.out)
    /\ UNCHANGED <<request, response, lastIssued, stream, resilient, nOps, mounted>>

\* A handleLogout that leaves the results on the page.
LoggedOut_KeepsResults ==
  /\ localStorage' = JNull
  /\ authState' = NoAuthState
  /\ UNCHANGED <<page, uncaught>>

\* handleLogout after removeItem returned: the session and the results are
\* reset.
LoggedOut ==
  /\ localStorage' = JNull
  /\ authState' = NoAuthState
  /\ page' = [page EXCEPT !.loginResult = JNull, !.securedResult = JNull,
                          !.greetingResult = JNull,
                          !.resilientResult = JNull]
  /\ UNCHANGED uncaught

\* handleLogout with a Logout button that is always shown.
HandleLogout_AlwaysShown ==
  \E threw \in BOOLEAN :
    /\ Ready
    /\ nOps < MaxOps
    /\ nOps' = nOps + 1
    /\ storageCall' = StorageCall("removeItem", "handleLogout", threw)
    /\ IF threw
       THEN /\ uncaught' = uncaught \cup {"handleLogout"}
            /\ UNCHANGED <<localStorage, authState, page>>
       ELSE LoggedOut
    /\ UNCHANGED <<clock, request, response, lastIssued, stream, resilient,
                   inflight, mounted>>

\* handleLogout (the button is shown while the page is authenticated):
\* localStorage.removeItem comes first and is not guarded, so its exception
\* leaves the handler before anything is reset.
HandleLogout ==
  \E threw \in BOOLEAN :
    /\ Ready
    /\ authState.isAuthenticated
    /\ nOps < MaxOps
    /\ nOps' = nOps + 1
    /\ storageCall' = StorageCall("removeItem", "handleLogout", threw)
    /\ IF threw
       THEN /\ uncaught' = uncaught \cup {"handleLogout"}
            /\ UNCHANGED <<localStorage, authState, page>>
       ELSE LoggedOut
    /\ UNCHANGED <<clock, request, response, lastIssued, stream, resilient, inflight,
                   mounted>>

\* The actionType handleSecuredAction passes: 'admin-operation'.
Str_adminOperation ==
  <<"a", "d", "m", "i", "n", "-", "o", "p", "e", "r", "a", "t", "i", "o", "n">>

\* handleSecuredAction with the token of authState, after the test of
\* authState.token: the page shows the action as running and starts the
\* program.
HandleSecuredActionWith(out) ==
  /\ page' = [page EXCEPT !.isSecuredLoading = TRUE, !.securedResult = JNull]
  /\ inflight' = [inflight EXCEPT !.handleSecuredAction =
                    Started(out, authState.token, ClockAfter(out.reads))]

\* handleSecuredAction with no test of the session: the program is started
\* with whatever authState holds.
HandleSecuredAction_Unguarded ==
  \E d \in Delays :
    /\ Ready
    /\ ~page.isSecuredLoading
    /\ nOps < MaxOps
    /\ nOps' = nOps + 1
    /\ HandleSecuredActionWith(
         performSecuredAction(authState.token, Str_adminOperation, clock,
                              clock + SecuredActionSleep + d))
    /\ UNCHANGED <<clock, request, response, lastIssued, stream, resilient,
                   localStorage, authState, storageCall, uncaught, mounted>>

\* handleSecuredAction: the button is disabled unless the page is
\* authenticated and no secured action runs, and the handler returns at
\* once when authState.token is not set.
HandleSecuredAction ==
  \E d \in Delays :
    /\ Ready
    /\ authState.isAuthenticated
    /\ ~page.isSecuredLoading
    /\ Truthy(authState.token)
    /\ nOps < MaxOps
    /\ nOps' = nOps + 1
    /\ HandleSecuredActionWith(
         performSecuredAction(authState.token, Str_adminOperation, clock,
                              clock + SecuredActionSleep + d))
    /\ UNCHANGED <<clock, request, response, lastIssued, stream, resilient,
                   localStorage, authState, storageCall, uncaught, mounted>>

\* What handleSecuredAction makes of the outcome out: the result shown (none
\* when the program dies and the promise is rejected).
SecuredResult(out, shown) ==
  IF out.exit = "success"
  THEN [success |-> TRUE,
        data |-> [message |-> out.value.message,
                  actionType |-> out.value.actionType,
                  userId |-> out.value.userId,
                  timestamp |-> out.value.timestamp]]
  ELSE IF out.exit = "failure"
  THEN [success |-> FALSE, error |-> out.message, code |-> out.code]
  ELSE shown

\* The program of handleSecuredAction ends; finally resets the loading flag.
HandleSecuredActionDone ==
  /\ ~Busy
  /\ IsNextToEnd("handleSecuredAction")
  /\ inflight' = [inflight EXCEPT !.handleSecuredAction.status = "done"]
  /\ clock' = inflight.handleSecuredAction.due
  /\ page' = [page EXCEPT
                !.isSecuredLoading = FALSE,
                !.securedResult =
                   SecuredResult(inflight.handleSecuredAction.out, @)]
  /\ uncaught' = IF inflight.handleSecuredAction.out.exit = "die"
                 THEN uncaught \cup {"handleSecuredAction"} ELSE uncaught
  /\ UNCHANGED <<request, response, lastIssued, stream, resilient, nOps,
                 localStorage, authState, storageCall, mounted>>

\* handleGreeting (the button is disabled while a greeting runs).
HandleGreeting ==
  \E d \in Delays :
    /\ Ready
    /\ ~page.isGreetingLoading
    /\ nOps < MaxOps
    /\ nOps' = nOps + 1
    /\ page' = [page EXCEPT !.isGreetingLoading = TRUE,
                            !.greetingResult = JNull]
    /\ inflight' = [inflight EXCEPT !.handleGreeting =
                      Started(getPublicGreeting(clock + GreetingSleep + d),
                              JNull, clock + GreetingSleep + d)]
    /\ UNCHANGED <<clock, request, response, lastIssued, stream, resilient,
                   localStorage, authState, storageCall, uncaught, mounted>>

\* What handleGreeting makes of the outcome out.
GreetingResultOf(out, shown) ==
  IF out.exit = "success"
  THEN [success |-> TRUE,
        data |-> [message |-> out.value.message,
                  serverTime |-> out.value.serverTime,
                  timestamp |-> out.value.timestamp]]
  ELSE IF out.exit = "failure"
  THEN [success |-> FALSE, error |-> out.message, code |-> "GREETING_ERROR"]
  ELSE shown

\* The program of handleGreeting ends; finally resets the loading flag.
HandleGreetingDone ==
  /\ ~Busy
  /\ IsNextToEnd("handleGreeting")
  /\ inflight' = [inflight EXCEPT !.handleGreeting.status = "done"]
  /\ clock' = inflight.handleGreeting.due
  /\ page' = [page EXCEPT
                !.isGreetingLoading = FALSE,
                !.greetingResult =
                   GreetingResultOf(inflight.handleGreeting.out, @)]
  /\ uncaught' = IF inflight.handleGreeting.out.exit = "die"
                 THEN uncaught \cup {"handleGreeting"} ELSE uncaught
  /\ UNCHANGED <<request, response, lastIssued, stream, resilient, nOps,
                 localStorage, authState, storageCall, mounted>>

\* The Resilient Action button of the mounted page is clicked.
ClickResilientAction ==
  /\ Ready
  /\ HandleResilientAction

\* No program of the page is waiting for a timer.
NoneInFlight == \A h \in Handlers : inflight[h].status # "pending"

\* Time passes on the page while nothing runs.
PageIdle ==
  /\ Ready
  /\ NoneInFlight
  /\ Idle

\* What the storage holds when the page is opened: nothing, an empty
\* string, a token that is valid, expired or carries a userId that is no
\* string, and a string that is no token.
StoredItems ==
  { JNull, JStr(<<>>),
    JStr(<<"i", "n", "v", "a", "l", "i", "d", "-", "j", "s", "o", "n">>) }
  \cup
  { JStr(btoa(JSONstringify(p))) :
      p \in { JObj(<<Member(Str_userId, JStr(Str_admin)),
                     Member(Str_exp, JNum(e))>>) : e \in {1, 99999} }
            \cup
            { JObj(<<Member(Str_userId, JNum(5)),
                     Member(Str_exp, JNum(99999))>>) } }

\* The clock when the page is opened: before and after the stored token
\* with exp 1 expires.
PageOpenedAt == {1000, 2500}

ClientInit ==
  /\ clock \in PageOpenedAt
  /\ request = NoRequest
  /\ response = NoResponse
  /\ lastIssued = NoToken
  /\ nOps = 0
  /\ resilient = NoResilient
  /\ stream = NoStream
  /\ \E item \in StoredItems : PageAt(item)

ClientNext ==
  \/ Mount
  \/ ValidateStoredTokenDone
  \/ HandleLogin
  \/ HandleLoginDone
  \/ HandleLogout
  \/ HandleSecuredAction
  \/ HandleSecuredActionDone
  \/ HandleGreeting
  \/ HandleGreetingDone
  \/ ClickResilientAction
  \/ Execute
  \/ PageIdle

\* A program that was started runs to its end.
ClientSpec ==
  /\ ClientInit
  /\ [][ClientNext]_vars
  /\ WF_vars(ValidateStoredTokenDone)
  /\ WF_vars(HandleLoginDone)
  /\ WF_vars(HandleSecuredActionDone)
  /\ WF_vars(HandleGreetingDone)
  /\ WF_vars(Execute)


\* The step in which the program of handler h ends.
Ends(h) ==
  /\ inflight[h].status = "pending"
  /\ inflight'[h].status = "done"

\* The step in which handler by makes the storage call op.
Calls(op, by) ==
  /\ storageCall'.nth # storageCall.nth
  /\ storageCall'.op = op
  /\ storageCall'.by = by

\* The last call of localStorage was op, made by handler by, and threw or
\* not.
LastCall(op, by, threw) ==
  /\ storageCall.op = op
  /\ storageCall.by = by
  /\ storageCall.threw = threw

Unauthenticated(state) == ~state.isAuthenticated /\ state.token = JNull

\* No stored token was handed to validateStoredToken.
NothingToValidate == inflight.validateStoredToken.status = "idle"

\* The step in which a login with valid credentials ends.
ValidLoginEnds ==
  /\ Ends("handleLogin")
  /\ inflight.handleLogin.out.exit = "success"

\* C15: starting with no stored token the session is Unauthenticated; a
\* successful login as admin leaves the session Authenticated with userId
\* admin and the issued token persisted; a logout leaves the session
\* Unauthenticated, the token in memory null and no token persisted.
C15_Lifecycle ==
  [][/\ (~mounted /\ mounted' /\ localStorage = JNull)
           => Unauthenticated(authState')
     /\ (ValidLoginEnds /\ NothingToValidate)
           => /\ authState'.isAuthenticated
              /\ authState'.user.userId = Str_admin
              /\ authState'.token = JStr(inflight.handleLogin.out.value.token)
              /\ localStorage' = authState'.token
     /\ Calls("removeItem", "handleLogout")
           => /\ Unauthenticated(authState')
              /\ localStorage' = JNull]_vars


\* validateToken refused the stored token that the mount effect passed on.
StoredRejected ==
  /\ inflight.validateStoredToken.status # "idle"
  /\ inflight.validateStoredToken.out.exit # "success"

\* The page was opened on a stored string that validateToken refuses: the
\* empty string, which the mount effect does not pass on, or a string whose
\* validation is under way.
ReadRejected ==
  /\ mounted
  /\ LastCall("getItem", "useEffect", FALSE)
  /\ localStorage.t = "str"
  /\ IF Truthy(localStorage)
     THEN inflight.validateStoredToken.status = "pending" /\ StoredRejected
     ELSE validateToken(localStorage, clock, clock).exit # "success"

\* The step in which the validation of a refused stored token ends.
RejectedEnds == Ends("validateStoredToken") /\ StoredRejected

\* C16 as stated: a stored string that validateToken refuses is removed and
\* the session is Unauthenticated, when its validation ends and eventually
\* after it was read, and that token never authenticates the session.
C16_RejectedIsRemoved ==
  /\ [][RejectedEnds
          => localStorage' = JNull /\ Unauthenticated(authState')]_vars
  /\ [](StoredRejected
          => authState.token # inflight.validateStoredToken.token)
  /\ ReadRejected ~> (localStorage = JNull /\ Unauthenticated(authState))

\* C16 amended: the stored token is read once, at mount; a stored string
\* that is not empty is passed to validateToken; when validateToken refuses
\* it, the validation ends with the session Unauthenticated and with the
\* removal of the stored token requested, which removes the token unless
\* the removal itself throws; that token never authenticates the session.
C16_RejectedNonEmptyIsCleared ==
  /\ [][storageCall' # storageCall /\ storageCall'.op = "getItem"
          => ~mounted /\ mounted']_vars
  /\ [][(~mounted /\ mounted' /\ ~storageCall'.threw /\ Truthy(localStorage))
          => /\ inflight'.validateStoredToken.status = "pending"
             /\ inflight'.validateStoredToken.token = localStorage]_vars
  /\ [][RejectedEnds
          => /\ Calls("removeItem", "validateStoredToken")
             /\ Unauthenticated(authState')
             /\ localStorage' = IF storageCall'.threw THEN localStorage
                                ELSE JNull]_vars
  /\ [](StoredRejected
          => authState.token # inflight.validateStoredToken.token)
  /\ (inflight.validateStoredToken.status = "pending" /\ StoredRejected)
        ~> (inflight.validateStoredToken.status = "done")

\* An expired stored token was refused and removed.
C16_Witness ==
  /\ inflight.validateStoredToken.status = "done"
  /\ inflight.validateStoredToken.out.exit = "failure"
  /\ inflight.validateStoredToken.out.code = "TOKEN_EXPIRED"
  /\ LastCall("removeItem", "validateStoredToken", FALSE)
  /\ localStorage = JNull
  /\ Unauthenticated(authState)


\* The mount effect's getItem threw, and no storage call was made since.
ReadThrew == LastCall("getItem", "useEffect", TRUE)

\* C17: when getItem throws at mount the error is absorbed: nothing is
\* uncaught, no validation is started, and the session is Unauthenticated
\* as it is with no stored token, whatever the storage holds.
C17_ReadFailureAbsorbed ==
  ReadThrew
    => /\ uncaught = {}
       /\ inflight.validateStoredToken = NotStarted
       /\ authState = NoAuthState

\* getItem threw on a page whose storage holds a token that validateToken
\* accepts.
C17_Witness ==
  /\ mounted
  /\ ReadThrew
  /\ Truthy(localStorage)
  /\ validateToken(localStorage, clock, clock).exit = "success"
  /\ authState = NoAuthState


\* C18: when setItem throws during a login with valid credentials the
\* failure is caught: no error escapes handleLogin and the login ends with
\* a login result.
C18_WriteFailureAbsorbed ==
  [][(ValidLoginEnds /\ storageCall'.threw)
       => /\ uncaught' = uncaught
          /\ page'.loginResult # JNull
          /\ ~page'.isLogging]_vars

\* C19: when removeItem throws the error is absorbed and the handler that
\* called it completes; a logout leaves the session Unauthenticated with a
\* null token in memory, whether or not the removal succeeded.
C19_RemovalFailureAbsorbed ==
  [][/\ (\E by \in {"handleLogout", "validateStoredToken"} :
            Calls("removeItem", by) /\ storageCall'.threw)
          => uncaught' = uncaught
     /\ Calls("removeItem", "handleLogout")
          => Unauthenticated(authState')]_vars


\* ---------------------------------------------------------------------
\* streamEvents (src/server/api.ts): a ReadableStream fed by an interval.
\* ---------------------------------------------------------------------

IntervalMs == 1000
GenerateSleep == 100
MaxEvents == 10

\* The chunk 'Connection established\n'.
ConnectionEstablished ==
  [text |-> "Connection established", event |-> 0, timestamp |-> 0]

\* The chunk of the event data: the event number, which the message
\* repeats, and the time it was generated at.
DataChunk(count, now) == [text |-> "data", event |-> count, timestamp |-> now]

\* controller.enqueue(chunk) by caller: an open controller takes the chunk;
\* a closed one throws a TypeError.
Enqueue(s, chunk, caller) ==
  IF s.status = "open"
  THEN [s EXCEPT !.queue = Append(@, chunk)]
  ELSE [s EXCEPT !.thrown = Append(@, <<"enqueue", caller>>)]

\* controller.close() by caller: an open controller is closed; a closed one
\* throws a TypeError.
Close(s, caller) ==
  IF s.status = "open"
  THEN [s EXCEPT !.status = "closed", !.closeCalls = @ + 1]
  ELSE [s EXCEPT !.closeCalls = @ + 1,
                 !.thrown = Append(@, <<"close", caller>>)]

\* clearInterval(interval).
ClearInterval(s) == [s EXCEPT !.interval = FALSE]

\* The exception of a controller call left caller uncaught.
Escaped(s, caller) == [s EXCEPT !.escaped = @ \cup {caller}]

\* start(controller): the first chunk, the interval and the abort listener.
StartStream(aborted, now) ==
  [status |-> "open", queue |-> <<ConnectionEstablished>>, count |-> 0,
   interval |-> TRUE, generating |-> FALSE, aborted |-> aborted,
   listening |-> ~aborted, lastTick |-> now, closeCalls |-> 0,
   thrown |-> <<>>, escaped |-> {}]

\* The handler of streamEvents is called with a signal that is or is not
\* aborted yet (a listener added to an aborted signal is never called).
StreamEvents ==
  \E aborted \in BOOLEAN :
    /\ stream = NoStream
    /\ stream' = StartStream(aborted, clock)
    /\ UNCHANGED <<clock, request, response, lastIssued, nOps, resilient,
                   clientVars>>

\* The interval callback up to its await: an aborted signal ends the
\* stream, otherwise the program that generates the event is started.
TickOf(s) ==
  IF s.aborted
  THEN Close(ClearInterval(s), "interval")
  ELSE [s EXCEPT !.generating = TRUE]

\* The interval fires, IntervalMs after it last did. The program of the
\* tick before has ended by then: it sleeps GenerateSleep only.
Tick ==
  /\ stream.status # "none"
  /\ stream.interval
  /\ ~stream.generating
  /\ clock' = stream.lastTick + IntervalMs
  /\ stream' = [TickOf(stream) EXCEPT !.lastTick = clock']
  /\ UNCHANGED <<request, response, lastIssued, nOps, resilient, clientVars>>

\* The catch block of the interval callback: clearInterval and close; an
\* exception of close rejects the promise of the async callback.
Caught(s) ==
  IF s.status = "open"
  THEN Close(ClearInterval(s), "catch")
  ELSE Escaped(Close(ClearInterval(s), "catch"), "interval")

\* The try block after the await: the chunk is enqueued and the stream is
\* ended with the event numbered MaxEvents.
Emitted(s, now) ==
  IF s.status # "open"
  THEN Caught(Enqueue(s, DataChunk(s.count, now), "interval"))
  ELSE IF s.count >= MaxEvents
  THEN Close(ClearInterval(Enqueue(s, DataChunk(s.count, now), "interval")),
             "interval")
  ELSE Enqueue(s, DataChunk(s.count, now), "interval")

\* The program of a tick ends after GenerateSleep with ++count.
Generated ==
  /\ stream.status # "none"
  /\ stream.generating
  /\ clock' = clock + GenerateSleep
  /\ stream' = Emitted([stream EXCEPT !.count = @ + 1,
                                      !.generating = FALSE], clock')
  /\ UNCHANGED <<request, response, lastIssued, nOps, resilient, clientVars>>

\* An abort listener that does nothing.
AbortListener_Ignores(s) == s

\* The abort listener: clearInterval and close; an exception of close
\* leaves the listener.
AbortListener(s) ==
  IF s.status = "open"
  THEN Close(ClearInterval(s), "abort")
  ELSE Escaped(Close(ClearInterval(s), "abort"), "abort")

\* The request is aborted, at any time after the handler was called.
Abort ==
  /\ stream.status # "none"
  /\ ~stream.aborted
  /\ stream' = AbortListener([stream EXCEPT !.aborted = TRUE])
  /\ UNCHANGED <<clock, request, response, lastIssued, nOps, resilient,
                 clientVars>>

StreamNext ==
  \/ StreamEvents
  \/ Tick
  \/ Generated
  \/ Abort

\* The timers of the interval and of the sleep fire.
StreamSpec ==
  /\ Init
  /\ [][StreamNext]_vars
  /\ WF_vars(Tick)
  /\ WF_vars(Generated)


\* The handler of streamEvents was called.
Streaming == stream.status # "none"

\* The chunks enqueued so far are the connection line and then the events
\* numbered 1, 2, ... in this order.
InOrder(queue) ==
  /\ Len(queue) >= 1
  /\ queue[1] = ConnectionEstablished
  /\ \A i \in 2..Len(queue) :
       queue[i].text = "data" /\ queue[i].event = i - 1

\* C29: the stream emits the connection line, then the data events 1, 2,
\* ... in order without gaps or duplicates, at most MaxEvents of them, and
\* is closed with the last; after an abort nothing more is emitted and the
\* stream is closed; in every case the stream ends.
C29_OrderedBoundedEvents ==
  /\ [](Streaming
          => /\ InOrder(stream.queue)
             /\ Len(stream.queue) <= MaxEvents + 1
             /\ Len(stream.queue) = MaxEvents + 1
                  => stream.status = "closed")
  /\ [][(Streaming /\ stream.aborted)
          => stream'.queue = stream.queue]_vars
  /\ (Streaming /\ stream.aborted) ~> (stream.status = "closed")
  /\ Streaming ~> (stream.status = "closed" /\ ~stream.interval)

\* The stream was closed with its tenth event, and no abort came.
C29_Witness ==
  /\ Streaming
  /\ ~stream.aborted
  /\ Len(stream.queue) = MaxEvents + 1
  /\ stream.queue[MaxEvents + 1].event = MaxEvents
  /\ stream.status = "closed"

\* C30: controller.close() is called at most once and no controller call
\* is made on the closed controller.
C30_ClosedOnce ==
  Streaming => stream.closeCalls <= 1 /\ stream.thrown = <<>>


\* The token the page holds passes validateToken at the current clock.
HeldTokenIsValid ==
  /\ authState.token.t = "str"
  /\ validateToken(authState.token, clock, clock).exit = "success"

\* The step in which a secured action ends that was refused for the held
\* token.
SecuredActionRefused ==
  /\ Ends("handleSecuredAction")
  /\ inflight.handleSecuredAction.out.exit # "success"
  /\ inflight.handleSecuredAction.token = authState.token

\* C21: an Authenticated session holds a token that is well-formed and
\* unexpired at the current clock, and a secured action refused for the
\* held token ends the Authenticated session.
C21_AuthenticatedTokenValid ==
  /\ [](authState.isAuthenticated => HeldTokenIsValid)
  /\ [][(authState.isAuthenticated /\ SecuredActionRefused)
          => ~authState'.isAuthenticated]_vars


\* The user is prompted to log in: the session is Unauthenticated and the
\* login form is enabled.
Prompted ==
  /\ Ready
  /\ ~authState.isAuthenticated
  /\ ~page.isLogging

\* The store holds a string that validateToken refuses at the current
\* clock.
StoreHoldsInvalid ==
  /\ localStorage.t = "str"
  /\ validateToken(localStorage, clock, clock).exit # "success"

LoginInFlight == inflight.handleLogin.status = "pending"

\* The step of a logout.
LogoutStep == Calls("removeItem", "handleLogout")

\* A logout cleared the store after the login in flight was started.
ClearedDuringLogin ==
  /\ LoginInFlight
  /\ storageCall.op = "removeItem"
  /\ storageCall.by = "handleLogout"
  /\ storageCall.nth > inflight.handleLogin.since

Starts(h) ==
  /\ inflight[h].status # "pending"
  /\ inflight'[h].status = "pending"

\* C24: a secured action is started only while the session is Authenticated
\* and holds a token; the greeting and the resilient action can be started
\* whatever the session is, whenever the page takes events and their own
\* button is enabled.
C24_SecuredNeedsSession ==
  /\ [][Starts("handleSecuredAction")
          => /\ authState.isAuthenticated
             /\ authState.token # JNull
             /\ inflight'.handleSecuredAction.token = authState.token]_vars
  /\ []((Ready /\ nOps < MaxOps /\ ~page.isGreetingLoading)
          => ENABLED HandleGreeting)
  /\ []((Ready /\ nOps < MaxOps /\ ~page.isResilientLoading)
          => ENABLED ClickResilientAction)

\* A secured action was started on an Authenticated page with the token of
\* the session, and a greeting runs beside it.
C24_Witness ==
  /\ inflight.handleSecuredAction.status = "pending"
  /\ authState.isAuthenticated
  /\ inflight.handleSecuredAction.token = authState.token
  /\ inflight.handleGreeting.status = "pending"


\* The loading flag and the result the page shows for handler h.
IsLoading(h) ==
  CASE h = "handleLogin" -> page.isLogging
    [] h = "handleSecuredAction" -> page.isSecuredLoading
    [] h = "handleGreeting" -> page.isGreetingLoading

ResultOf(h) ==
  CASE h = "handleLogin" -> page.loginResult
    [] h = "handleSecuredAction" -> page.securedResult
    [] h = "handleGreeting" -> page.greetingResult

\* The actions of the page that run a program.
ClientActions == {"handleLogin", "handleSecuredAction", "handleGreeting"}

\* C25: every started action of the page finishes: eventually its loading
\* flag is false again, and when its program ends a result is shown for it.
C25_EveryActionFinishes ==
  /\ \A h \in ClientActions :
       (inflight[h].status = "pending") ~> (inflight[h].status = "done")
  /\ page.isResilientLoading ~> ~page.isResilientLoading
  /\ [][\A h \in ClientActions :
          Ends(h) => ~IsLoading(h)' /\ ResultOf(h)' # JNull]_vars
  /\ [][(page.isResilientLoading /\ ~page.isResilientLoading')
          => page.resilientResult' # JNull]_vars


\* C26: whenever the session is Authenticated the store holds a token and
\* it is the token of the session.
C26_StoreMatchesSession ==
  authState.isAuthenticated
    => /\ localStorage.t = "str"
       /\ localStorage = authState.token

\* A login saved its token and made the page Authenticated.
C26_Witness ==
  /\ authState.isAuthenticated
  /\ LastCall("setItem", "handleLogin", FALSE)
  /\ inflight.handleLogin.status = "done"
  /\ localStorage = authState.token

\* C27 as stated: whenever the session is Unauthenticated no result of a
\* secured action is shown.
C27_NoResultWhenUnauthenticated ==
  Unauthenticated(authState) => page.securedResult = JNull

\* The secured action that ended was started before a later storage call:
\* it was started on an Authenticated page, and the session that ended
\* since was ended by the removeItem of a logout.
InFlightAtLogout ==
  /\ inflight.handleSecuredAction.status = "done"
  /\ storageCall.nth > inflight.handleSecuredAction.since

\* C27 amended: a logout clears the result of the secured action, and
\* while the session is Unauthenticated a result is shown only when a
\* secured action that was in flight at the logout published it afterwards.
C27_ResultOnlyFromActionInFlight ==
  /\ [][(LogoutStep /\ ~storageCall'.threw)
          => page'.securedResult = JNull]_vars
  /\ [][(Unauthenticated(authState') /\ page.securedResult = JNull
           /\ page'.securedResult # JNull)
          => Ends("handleSecuredAction")]_vars
  /\ []((Unauthenticated(authState) /\ page.securedResult # JNull)
          => InFlightAtLogout)

\* A secured action in flight at the logout showed its result afterwards.
C27_Witness ==
  /\ Unauthenticated(authState)
  /\ page.securedResult # JNull
  /\ page.securedResult.success
  /\ InFlightAtLogout
  /\ LastCall("removeItem", "handleLogout", FALSE)

\* The login in flight, or the one that ends in this step, is refused.
FailedLoginStep ==
  \/ Starts("handleLogin") /\ inflight'.handleLogin.out.exit = "failure"
  \/ Ends("handleLogin") /\ inflight.handleLogin.out.exit = "failure"

\* C28: the steps of a failed login change the login result and the
\* logging-in flag only: the stored token, the session and the other
\* actions' results and flags stay as they are.
C28_FailedLoginFrame ==
  [][FailedLoginStep
       => /\ UNCHANGED <<localStorage, authState>>
          /\ page' = [page EXCEPT !.isLogging = page'.isLogging,
                                  !.loginResult = page'.loginResult]]_vars

\* A refused login ended on a page whose store holds a token.
C28_Witness ==
  /\ inflight.handleLogin.status = "done"
  /\ inflight.handleLogin.out.exit = "failure"
  /\ page.loginResult # JNull
  /\ ~page.loginResult.success
  /\ Truthy(localStorage)
  /\ ~page.isLogging

====
